---- MODULE Spec2Model ----
(***************************************************************************)
(* Trade journal (src/unnamed/part_003): the persisted ledger, addTrade    *)
(* and calculateAnalytics.                                                 *)
(*                                                                         *)
(* Conventions of the model.                                               *)
(*  - A JavaScript value that may be missing (undefined / null) is a       *)
(*    sequence: <<>> when missing, <<v>> when it is the number v.          *)
(*  - Date.now() is the integer `now` (milliseconds).  The id              *)
(*    `trade-${Date.now()}` is modelled by the integer it embeds, and an   *)
(*    ISO timestamp by the millisecond it denotes (toISOString and         *)
(*    new Date(...) are inverse on millisecond values).                    *)
(*  - A number is the exact fraction [num, den] in lowest terms, den > 0;   *)
(*    den = 0 stands for the non-finite numbers of JavaScript: num 1 for   *)
(*    Infinity, -1 for -Infinity, 0 for NaN.  The arithmetic is that of    *)
(*    the reals (no rounding); 0 and -0 are not told apart.  Counts and    *)
(*    clock readings are integers.  The bias percentages of                *)
(*    calculateAnalytics are IEEE doubles, rounded as the code rounds      *)
(*    them; the pnl the journals of the model hold are whole numbers, for  *)
(*    which the sums of the code are exact.                                *)
(***************************************************************************)
EXTENDS Integers, Sequences, FiniteSets, TLC

VARIABLES journal, now, out, pc, local, seen, chars, positions, sim, dca, bot,
          escrows, release

\* The state of the yield tools: the positions file and the simulation run.
yieldVars == <<positions, sim>>

\* The state of the DCA bot: its state file and its process.
botVars == <<dca, bot>>

\* The state of the escrow tool: its file and the release under way.
escrowVars == <<escrows, release>>

vars == <<journal, now, out, pc, local, seen, chars, positions, sim, dca, bot,
          escrows, release>>

(***************************************************************************)
(* Bounds of the model.                                                    *)
(***************************************************************************)
MaxTrades == 2

MaxClock == 1

MaxLen == 3

MaxTime == 2

MaxFiltered == 2

\* Longest projection, in days.
MaxDays == 2

\* Largest number of Monte Carlo trials.
MaxTrials == 5

(***************************************************************************)
(* Optional values and JavaScript truthiness.                              *)
(***************************************************************************)
Absent == <<>>

Null == <<>>

Num(v) == <<v>>

Val(x) == x[1]


(***************************************************************************)
(* Exact quotients.                                                        *)
(***************************************************************************)
Abs(n) == IF n < 0 THEN -n ELSE n

Sign(n) == IF n > 0 THEN 1 ELSE IF n < 0 THEN -1 ELSE 0

RECURSIVE GCD(_, _)
GCD(a, b) == IF b = 0 THEN a ELSE GCD(b, a % b)

Div(a, b) ==
    IF b = 0 THEN [num |-> Sign(a), den |-> 0]
    ELSE LET g == GCD(Abs(a), Abs(b))
         IN  [num |-> (Sign(b) * a) \div g, den |-> Abs(b) \div g]

Zero == Div(0, 1)

Q(n) == Div(n, 1)

NaN == Div(0, 0)

IsNaN(x) == x.den = 0 /\ x.num = 0

IsInfinite(x) == x.den = 0 /\ x.num # 0

\* x <= y: false when one of them is NaN.
Leq(x, y) ==
    /\ ~IsNaN(x)
    /\ ~IsNaN(y)
    /\ IF x.den = 0 /\ y.den = 0 THEN x.num <= y.num
       ELSE IF x.den = 0 \/ y.den = 0 THEN x.num * y.den <= y.num * x.den
       ELSE LET g == GCD(x.den, y.den)
            IN  x.num * (y.den \div g) <= y.num * (x.den \div g)

\* x < y: false when one of them is NaN.
Less(x, y) == Leq(x, y) /\ x # y

\* Math.max(x, y)
MaxQ(x, y) == IF IsNaN(x) \/ IsNaN(y) THEN NaN ELSE IF Leq(x, y) THEN y ELSE x

\* Math.abs(x)
AbsQ(x) == IF x.num < 0 THEN [x EXCEPT !.num = -x.num] ELSE x

NegQ(x) == [x EXCEPT !.num = -x.num]

\* x + y: Infinity + -Infinity is NaN.
AddQ(x, y) ==
    IF x.den = 0 /\ y.den = 0 THEN (IF x = y THEN x ELSE NaN)
    ELSE IF x.den = 0 \/ y.den = 0 THEN Div(x.num * y.den + y.num * x.den, 0)
    ELSE LET g == GCD(x.den, y.den)
         IN  Div(x.num * (y.den \div g) + y.num * (x.den \div g),
                 (x.den \div g) * y.den)

SubQ(x, y) == AddQ(x, NegQ(y))

MulQ(x, y) ==
    IF x.den = 0 \/ y.den = 0 \/ x.num = 0 \/ y.num = 0
    THEN Div(x.num * y.num, x.den * y.den)
    ELSE LET g == GCD(Abs(x.num), y.den)
             h == GCD(Abs(y.num), x.den)
         IN  Div((x.num \div g) * (y.num \div h), (x.den \div h) * (y.den \div g))

\* x / y: Infinity, -Infinity or NaN when y is 0; the sign of y counts also
\* when x is infinite.
DivQ(x, y) ==
    IF y.num < 0 THEN Div((-x.num) * y.den, x.den * (-y.num))
    ELSE Div(x.num * y.den, x.den * y.num)

RECURSIVE Pow10(_)
Pow10(n) == IF n = 0 THEN 1 ELSE 10 * Pow10(n - 1)

\* The truth value of a number that may be missing: missing, 0 and NaN are
\* false.
Truthy(x) == x # <<>> /\ x[1].num # 0

\* x || 0
OrZero(x) == IF Truthy(x) THEN x[1] ELSE Zero

\* JSON.stringify of a number: null when it is not finite.
Json(x) == IF x # Null /\ x[1].den = 0 THEN Null ELSE x

\* A number that may be null, in arithmetic: null counts 0.
ToNumber(x) == IF x = Null THEN Zero ELSE x[1]

(***************************************************************************)
(* IEEE doubles, for the quotients whose rounding shows in the result.     *)
(* A natural number beyond the integers of the checker is the sequence of  *)
(* its digits to the base 2^15 = 32768, lowest first (<<>> is 0); a double *)
(* that is not negative is m * 2^e with 2^52 <= m < 2^53, or 0.            *)
(***************************************************************************)
RECURSIVE Pow2(_)
Pow2(n) == IF n = 0 THEN 1 ELSE 2 * Pow2(n - 1)

\* The number of binary digits of a natural number below 2^15.
RECURSIVE Bits(_)
Bits(n) == IF n = 0 THEN 0 ELSE 1 + Bits(n \div 2)

RECURSIVE Trim(_)
Trim(x) == IF x # <<>> /\ x[Len(x)] = 0 THEN Trim(SubSeq(x, 1, Len(x) - 1)) ELSE x

BitLength(x) == IF x = <<>> THEN 0 ELSE 15 * (Len(x) - 1) + Bits(x[Len(x)])

\* x * c + carry, for c below 2^15
RECURSIVE MulSmall(_, _, _)
MulSmall(x, c, carry) ==
    IF x = <<>> THEN (IF carry = 0 THEN <<>> ELSE <<carry>>)
    ELSE LET p == x[1] * c + carry
         IN  <<p % 32768>> \o MulSmall(Tail(x), c, p \div 32768)

\* Quotient and remainder of x by d, for d below 2^15
RECURSIVE DivSmall(_, _)
DivSmall(x, d) ==
    IF x = <<>> THEN [q |-> <<>>, r |-> 0]
    ELSE LET high == DivSmall(Tail(x), d)
             cur  == high.r * 32768 + x[1]
         IN  [q |-> Trim(<<cur \div d>> \o high.q), r |-> cur % d]

\* x + y + carry
RECURSIVE AddBig(_, _, _)
AddBig(x, y, carry) ==
    IF x = <<>> /\ y = <<>> THEN (IF carry = 0 THEN <<>> ELSE <<carry>>)
    ELSE LET s == (IF x = <<>> THEN 0 ELSE x[1]) + (IF y = <<>> THEN 0 ELSE y[1])
                  + carry
         IN  <<s % 32768>> \o AddBig(IF x = <<>> THEN x ELSE Tail(x),
                                        IF y = <<>> THEN y ELSE Tail(y),
                                        s \div 32768)

\* x * 2^n
RECURSIVE ShiftLeft(_, _)
ShiftLeft(x, n) ==
    IF x = <<>> \/ n = 0 THEN x
    ELSE IF n >= 15 THEN ShiftLeft(<<0>> \o x, n - 15)
    ELSE MulSmall(x, Pow2(n), 0)

\* x div 2^n, and whether a digit 1 was dropped
RECURSIVE ShiftRight(_, _)
ShiftRight(x, n) ==
    IF x = <<>> \/ n = 0 THEN [q |-> x, sticky |-> FALSE]
    ELSE IF n >= 15
    THEN LET rest == ShiftRight(Tail(x), n - 15)
         IN  [q |-> rest.q, sticky |-> rest.sticky \/ x[1] # 0]
    ELSE LET d == DivSmall(x, Pow2(n))
         IN  [q |-> d.q, sticky |-> d.r # 0]

ZeroD == [m |-> <<>>, e |-> 0]

\* The double nearest to x * 2^e, ties to even; `sticky` says that the number
\* rounded is a little above x * 2^e (x then has more than 53 digits).
RoundD(x, e, sticky) ==
    LET n == BitLength(x)
    IN  IF x = <<>> THEN ZeroD
        ELSE IF n <= 53 THEN [m |-> ShiftLeft(x, 53 - n), e |-> e - (53 - n)]
        ELSE LET s    == ShiftRight(x, n - 54)
                 d    == DivSmall(s.q, 2)
                 up   == d.r = 1 /\ (s.sticky \/ sticky \/ d.q[1] % 2 = 1)
                 m    == IF up THEN AddBig(d.q, <<1>>, 0) ELSE d.q
             IN  IF BitLength(m) = 54
                 THEN [m |-> DivSmall(m, 2).q, e |-> e + (n - 53) + 1]
                 ELSE [m |-> m, e |-> e + (n - 53)]

\* n / t in doubles, for natural numbers n and t > 0 below 2^15
DivD(n, t) ==
    LET d == DivSmall(ShiftLeft(Trim(<<n>>), 75), t)
    IN  RoundD(d.q, -75, d.r # 0)

\* x * c in doubles, for a natural number c below 2^15
MulD(x, c) == RoundD(MulSmall(x.m, c, 0), x.e, FALSE)

\* x + y in doubles
AddD(x, y) ==
    IF x = ZeroD THEN y
    ELSE IF y = ZeroD THEN x
    ELSE LET e == IF x.e < y.e THEN x.e ELSE y.e
         IN  RoundD(AddBig(ShiftLeft(x.m, x.e - e), ShiftLeft(y.m, y.e - e), 0),
                    e, FALSE)

\* (count / totalTrades) * 100, for the counts a journal of the model can
\* give (worked out once).
Percents ==
    [totalTrades \in 1..(MaxTrades + MaxLen + MaxFiltered) |->
        [count \in 0..totalTrades |-> MulD(DivD(count, totalTrades), 100)]]

Percent(count, totalTrades) == Percents[totalTrades][count]

\* The double 100.
Hundred == RoundD(<<100>>, 0, FALSE)

(***************************************************************************)
(* Numbers a + b * sqrt(365) with quotients a and b: the numbers the       *)
(* simulator computes with once it has divided by Math.sqrt(365).  A       *)
(* number that is not finite has b = 0.                                    *)
(***************************************************************************)
R(q) == [rat |-> q, irr |-> Zero]

IsFiniteR(x) == x.rat.den # 0

\* The sign of a finite number: a and b of opposite signs are told apart by
\* 19.1 < sqrt(365) < 19.2, or else by a * a against 365 * b * b.
SignR(x) ==
    LET a == x.rat
        b == x.irr
    IN  IF b = Zero THEN Sign(a.num)
        ELSE IF a = Zero \/ Sign(a.num) = Sign(b.num) THEN Sign(b.num)
        ELSE IF Leq(MulQ(AbsQ(b), Div(192, 10)), AbsQ(a)) THEN Sign(a.num)
        ELSE IF Leq(AbsQ(a), MulQ(AbsQ(b), Div(191, 10))) THEN Sign(b.num)
        ELSE IF Less(MulQ(Q(365), MulQ(b, b)), MulQ(a, a)) THEN Sign(a.num)
        ELSE Sign(b.num)

\* The sign of a finite number, the number itself when it is not finite.
Sgn(x) == IF IsFiniteR(x) THEN Q(SignR(x)) ELSE x.rat

NegR(x) == [rat |-> NegQ(x.rat), irr |-> NegQ(x.irr)]

AddR(x, y) ==
    IF IsFiniteR(x) /\ IsFiniteR(y)
    THEN [rat |-> AddQ(x.rat, y.rat), irr |-> AddQ(x.irr, y.irr)]
    ELSE R(AddQ(x.rat, y.rat))

SubR(x, y) == AddR(x, NegR(y))

MulR(x, y) ==
    IF IsFiniteR(x) /\ IsFiniteR(y)
    THEN [rat |-> AddQ(MulQ(x.rat, y.rat), MulQ(Q(365), MulQ(x.irr, y.irr))),
          irr |-> AddQ(MulQ(x.rat, y.irr), MulQ(x.irr, y.rat))]
    ELSE R(MulQ(Sgn(x), Sgn(y)))

DivR(x, y) ==
    IF IsFiniteR(x) /\ IsFiniteR(y) /\ SignR(y) # 0
    THEN LET n == SubQ(MulQ(y.rat, y.rat), MulQ(Q(365), MulQ(y.irr, y.irr)))
         IN  MulR(x, [rat |-> DivQ(y.rat, n), irr |-> DivQ(NegQ(y.irr), n)])
    ELSE R(DivQ(Sgn(x), Sgn(y)))

\* x <= y: false when one of them is NaN.
LeqR(x, y) ==
    IF IsFiniteR(x) /\ IsFiniteR(y) THEN SignR(SubR(y, x)) >= 0
    ELSE Leq(x.rat, y.rat)

\* x < y
LessR(x, y) == LeqR(x, y) /\ x # y

AbsR(x) == IF Less(Sgn(x), Zero) THEN NegR(x) ELSE x

(***************************************************************************)
(* addTrade: the stored record.  The input record is spread after id and   *)
(* timestamp (so an id or timestamp it carries wins) and before pnl (so    *)
(* the computed pnl wins).  A size the input record lacks is undefined,    *)
(* NaN in the product.                                                     *)
(***************************************************************************)
Pnl(trade) ==
    IF Truthy(trade.exitPrice) /\ Truthy(trade.entryPrice)
    THEN Num(MulQ(MulQ(Q(IF trade.side = "long" THEN 1 ELSE -1),
                       SubQ(Val(trade.exitPrice), Val(trade.entryPrice))),
                  IF trade.size = Absent THEN NaN ELSE Val(trade.size)))
    ELSE Null

\* The record addTrade builds: `clock` is the reading of Date.now() for the
\* id, `later` the reading of new Date() for the timestamp.
NewTrade(trade, clock, later) ==
    [id         |-> IF trade.id # Absent THEN Val(trade.id) ELSE clock,
     timestamp  |-> IF trade.timestamp # Absent THEN Val(trade.timestamp) ELSE later,
     symbol     |-> trade.symbol,
     side       |-> trade.side,
     entryPrice |-> trade.entryPrice,
     exitPrice  |-> trade.exitPrice,
     size       |-> trade.size,
     fees       |-> trade.fees,
     status     |-> trade.status,
     tags       |-> trade.tags,
     notes      |-> trade.notes,
     pnl        |-> Pnl(trade)]

PushFront(trades, t) == <<t>> \o trades

\* journal.trades.push(newTrade)
Push(trades, t) == Append(trades, t)

(***************************************************************************)
(* calculateAnalytics.                                                     *)
(***************************************************************************)
NoFilters ==
    [symbol |-> Absent, startDate |-> Absent, endDate |-> Absent,
     side |-> Absent, tags |-> {}]

\* new Date(t.timestamp) <= new Date(filters.endDate)
NotAfter(timestamp, endDate) == timestamp <= endDate

\* Each filter runs when its value is truthy: a symbol or a side that is
\* the empty string, and a date that is the number 0, run no filter (the
\* dates are numbers of milliseconds, as the timestamps are).
ApplyFilters(trades, filters) ==
    LET f1 == IF filters.symbol # Absent /\ Val(filters.symbol) # ""
              THEN SelectSeq(trades, LAMBDA t : t.symbol = Val(filters.symbol))
              ELSE trades
        f2 == IF filters.startDate # Absent /\ Val(filters.startDate) # 0
              THEN SelectSeq(f1, LAMBDA t : t.timestamp >= Val(filters.startDate))
              ELSE f1
        f3 == IF filters.endDate # Absent /\ Val(filters.endDate) # 0
              THEN SelectSeq(f2, LAMBDA t : NotAfter(t.timestamp, Val(filters.endDate)))
              ELSE f2
        f4 == IF filters.side # Absent /\ Val(filters.side) # ""
              THEN SelectSeq(f3, LAMBDA t : t.side = Val(filters.side))
              ELSE f3
    IN  IF filters.tags # {}
        THEN SelectSeq(f4, LAMBDA t : filters.tags \cap t.tags # {})
        ELSE f4

ClosedTradesAnyStatus(filteredTrades) ==
    SelectSeq(filteredTrades, LAMBDA t : t.pnl # Null)

ClosedTrades(filteredTrades) ==
    SelectSeq(filteredTrades, LAMBDA t : t.status = "closed" /\ t.pnl # Null)

\* Array.prototype.sort is stable: t goes after every element that does not
\* compare greater than it.
RECURSIVE InsertByTimestamp(_, _)
InsertByTimestamp(sorted, t) ==
    IF sorted = <<>> THEN <<t>>
    ELSE IF sorted[Len(sorted)].timestamp <= t.timestamp THEN Append(sorted, t)
    ELSE Append(InsertByTimestamp(SubSeq(sorted, 1, Len(sorted) - 1), t),
                sorted[Len(sorted)])

RECURSIVE SortByTimestamp(_)
SortByTimestamp(trades) ==
    IF trades = <<>> THEN <<>>
    ELSE InsertByTimestamp(SortByTimestamp(SubSeq(trades, 1, Len(trades) - 1)),
                           trades[Len(trades)])

RECURSIVE SumPnl(_)
SumPnl(trades) ==
    IF trades = <<>> THEN Zero
    ELSE AddQ(SumPnl(SubSeq(trades, 1, Len(trades) - 1)), Val(trades[Len(trades)].pnl))

RECURSIVE SumFees(_)
SumFees(trades) ==
    IF trades = <<>> THEN Zero
    ELSE AddQ(SumFees(SubSeq(trades, 1, Len(trades) - 1)),
              OrZero(trades[Len(trades)].fees))

PeakLast(peakEquity, equity) == equity

\* peakEquity = Math.max(peakEquity, equity)
Peak(peakEquity, equity) == MaxQ(peakEquity, equity)

LastDrawdown(maxDrawdown, drawdown) == drawdown

\* maxDrawdown = Math.max(maxDrawdown, drawdown)
MaxDrawdown(maxDrawdown, drawdown) == MaxQ(maxDrawdown, drawdown)

\* The variables of the replay loop before its first iteration.
ReplayInit ==
    [equity |-> Zero, peakEquity |-> Zero, maxDrawdown |-> Zero,
     maxDrawdownPercent |-> Zero, equityCurve |-> <<>>]

\* One iteration of the replay loop.
ReplayStep(st, trade) ==
    LET equity          == AddQ(st.equity, Val(trade.pnl))
        peakEquity      == Peak(st.peakEquity, equity)
        drawdown        == SubQ(peakEquity, equity)
        drawdownPercent == IF Less(Zero, peakEquity)
                           THEN MulQ(DivQ(drawdown, peakEquity), Q(100))
                           ELSE Zero
    IN  [equity             |-> equity,
         peakEquity         |-> peakEquity,
         maxDrawdown        |-> MaxDrawdown(st.maxDrawdown, drawdown),
         maxDrawdownPercent |-> MaxQ(st.maxDrawdownPercent, drawdownPercent),
         equityCurve        |-> Append(st.equityCurve,
                                   [date |-> trade.timestamp, equity |-> equity,
                                    drawdown |-> drawdown,
                                    drawdownPercent |-> drawdownPercent])]

\* The variables of the replay loop after its first k iterations.
RECURSIVE Replay(_, _)
Replay(sorted, k) ==
    IF k = 0 THEN ReplayInit ELSE ReplayStep(Replay(sorted, k - 1), sorted[k])

ClosedUnsorted(filteredTrades) == ClosedTrades(filteredTrades)

\* closedTrades as the replay loop iterates it (sorted in place).
ClosedSorted(filteredTrades) == SortByTimestamp(ClosedTrades(filteredTrades))

ProfitFactorNoGuard(winningTrades, losingTrades) ==
    DivQ(SumPnl(winningTrades), AbsQ(SumPnl(losingTrades)))

ProfitFactor(winningTrades, losingTrades) ==
    IF Len(losingTrades) > 0 /\ Less(Zero, AbsQ(SumPnl(losingTrades)))
    THEN DivQ(SumPnl(winningTrades), AbsQ(SumPnl(losingTrades)))
    ELSE Zero

WinningTradesGeq(closedTrades) ==
    SelectSeq(closedTrades, LAMBDA t : Leq(Zero, Val(t.pnl)))

\* closedTrades.filter(t => t.pnl > 0)
WinningTrades(closedTrades) ==
    SelectSeq(closedTrades, LAMBDA t : Less(Zero, Val(t.pnl)))

\* closedTrades.filter(t => t.pnl < 0)
LosingTrades(closedTrades) ==
    SelectSeq(closedTrades, LAMBDA t : Less(Val(t.pnl), Zero))

\* closedTrades.filter(t => t.side === 'long')
LongTrades(closedTrades) ==
    SelectSeq(closedTrades, LAMBDA t : t.side = "long")

FeePercentNoGuard(totalFees, equity) ==
    MulQ(DivQ(totalFees, AbsQ(equity)), Q(100))

\* equity !== 0 ? (totalFees / Math.abs(equity)) * 100 : 0
FeePercentOfPnL(totalFees, equity) ==
    IF equity # Zero THEN MulQ(DivQ(totalFees, AbsQ(equity)), Q(100)) ELSE Zero

CalculateAnalytics(trades, filters) ==
    LET filteredTrades == ApplyFilters(trades, filters)
        unsorted       == ClosedTrades(filteredTrades)
        winningTrades  == WinningTrades(unsorted)
        losingTrades   == LosingTrades(unsorted)
        closedTrades   == ClosedSorted(filteredTrades)
        r              == Replay(closedTrades, Len(closedTrades))
        longTrades     == LongTrades(closedTrades)
        shortTrades    == SelectSeq(closedTrades, LAMBDA t : t.side = "short")
        totalTrades    == Len(longTrades) + Len(shortTrades)
        totalFees      == SumFees(closedTrades)
    IN  [summary |->
            [totalTrades  |-> Len(filteredTrades),
             closedTrades |-> Len(closedTrades),
             openTrades   |-> Len(SelectSeq(filteredTrades, LAMBDA t : t.status = "open")),
             winRate      |-> IF Len(closedTrades) > 0
                              THEN Div(Len(winningTrades) * 100, Len(closedTrades))
                              ELSE Zero,
             totalPnL     |-> SumPnl(closedTrades),
             avgWin       |-> IF Len(winningTrades) > 0
                              THEN DivQ(SumPnl(winningTrades), Q(Len(winningTrades)))
                              ELSE Zero,
             avgLoss      |-> IF Len(losingTrades) > 0
                              THEN DivQ(SumPnl(losingTrades), Q(Len(losingTrades)))
                              ELSE Zero,
             profitFactor |-> ProfitFactor(winningTrades, losingTrades),
             maxDrawdown  |-> r.maxDrawdown,
             maxDrawdownPercent |-> r.maxDrawdownPercent,
             currentEquity |-> r.equity,
             peakEquity   |-> r.peakEquity],
         bias |->
            [longCount    |-> Len(longTrades),
             shortCount   |-> Len(shortTrades),
             longPercent  |-> IF totalTrades > 0
                              THEN Percent(Len(longTrades), totalTrades) ELSE ZeroD,
             shortPercent |-> IF totalTrades > 0
                              THEN Percent(Len(shortTrades), totalTrades) ELSE ZeroD,
             longPnL      |-> SumPnl(longTrades),
             shortPnL     |-> SumPnl(shortTrades)],
         fees |->
            [totalFees       |-> totalFees,
             avgFeePerTrade  |-> IF Len(closedTrades) > 0
                                 THEN DivQ(totalFees, Q(Len(closedTrades)))
                                 ELSE Zero,
             feePercentOfPnL |-> FeePercentOfPnL(totalFees, r.equity)],
         equityCurve |-> r.equityCurve,
         trades      |-> filteredTrades]


RECURSIVE InsertByTimestampDesc(_, _)
InsertByTimestampDesc(sorted, t) ==
    IF sorted = <<>> THEN <<t>>
    ELSE IF sorted[Len(sorted)].timestamp >= t.timestamp THEN Append(sorted, t)
    ELSE Append(InsertByTimestampDesc(SubSeq(sorted, 1, Len(sorted) - 1), t),
                sorted[Len(sorted)])

\* analytics.trades.sort((a, b) => new Date(b.timestamp) - new Date(a.timestamp))
RECURSIVE SortByTimestampDesc(_)
SortByTimestampDesc(trades) ==
    IF trades = <<>> THEN <<>>
    ELSE InsertByTimestampDesc(SortByTimestampDesc(SubSeq(trades, 1, Len(trades) - 1)),
                               trades[Len(trades)])

(***************************************************************************)
(* The array passed to calculateAnalytics, as the caller finds it          *)
(* afterwards.  Array.prototype.sort works in place, so what it does to    *)
(* the caller's array depends on which arrays are that array itself:       *)
(* filteredTrades is, when no filter is applied; closedTrades never is.    *)
(***************************************************************************)
\* filteredTrades is the array `trades` itself: none of the five filters ran.
AliasesInput(filters) ==
    /\ filters.symbol = Absent \/ Val(filters.symbol) = ""
    /\ filters.startDate = Absent \/ Val(filters.startDate) = 0
    /\ filters.endDate = Absent \/ Val(filters.endDate) = 0
    /\ filters.side = Absent \/ Val(filters.side) = ""
    /\ filters.tags = {}

ClosedAliasesFiltered(filters) == AliasesInput(filters)

\* closedTrades is the array `trades` itself: never, filter() returns a new
\* array.
ClosedAliasesInput(filters) == FALSE

\* `trades` after calculateAnalytics(trades, filters): the replay loop sorts
\* closedTrades in place.
InputAfterAnalytics(trades, filters) ==
    IF ClosedAliasesInput(filters) THEN SortByTimestamp(trades) ELSE trades

\* journal.trades (in memory) after displayJournal, which sorts
\* analytics.trades, that is filteredTrades, in place.
InputAfterDisplay(trades, filters) ==
    IF AliasesInput(filters)
    THEN SortByTimestampDesc(InputAfterAnalytics(trades, filters))
    ELSE InputAfterAnalytics(trades, filters)

(***************************************************************************)
(* The journal file.  `journal` is the trades array loadJournal reads from *)
(* trade-journal.json (the createdAt / lastUpdated stamps beside it are    *)
(* not part of the ledger and are left out): a file that is missing,       *)
(* empty or no JSON reads as the empty journal (the catch branch).         *)
(* `chars.file` is the number of characters of the text in the file, 0     *)
(* when there is no file, and `chars.mem[p]` that of the text process p    *)
(* is to write.  The numbers of a trade are numbers that may be null.      *)
(***************************************************************************)
LoadJournal(file) == file

\* saveJournal: what JSON.stringify writes of the trades, a number that is
\* not finite as null.
SaveJournal(file, j) ==
    [i \in DOMAIN j |->
        [j[i] EXCEPT !.entryPrice = Json(@), !.exitPrice = Json(@),
                     !.size = Json(@), !.fees = Json(@), !.pnl = Json(@)]]

(***************************************************************************)
(* The length of the text JSON.stringify(journal, null, 2) writes.         *)
(***************************************************************************)
\* The number of characters of the strings the trades of the model hold.
StringChars(s) ==
    CASE s \in {"long", "open"} -> 4
      [] s = "short" -> 5
      [] s = "closed" -> 6
      [] s \in {"SOL-PERP", "BTC-PERP", "breakout", "momentum"} -> 8
      [] s = "Entered on breakout above resistance" -> 36

RECURSIVE Digits(_)
Digits(n) == IF n < 10 THEN 1 ELSE 1 + Digits(n \div 10)

\* The number of decimals of r / den, 0 <= r < den, for a number whose
\* decimals end, as those of the trades of the model do (the count stops at 16).
RECURSIVE DecimalDigits(_, _, _)
DecimalDigits(r, den, k) ==
    IF r = 0 \/ k = 16 THEN k ELSE DecimalDigits((r * 10) % den, den, k + 1)

\* The text of a number: null when it is not finite, else its decimal digits
\* with a sign when negative and a point when it is not whole.
NumberChars(q) ==
    IF q.den = 0 THEN 4
    ELSE (IF q.num < 0 THEN 1 ELSE 0) + Digits(Abs(q.num) \div q.den)
         + (IF Abs(q.num) % q.den = 0 THEN 0
            ELSE 1 + DecimalDigits(Abs(q.num) % q.den, q.den, 0))

\* One line of an object of a trades array: six blanks, the key in quotes,
\* a colon and a blank, the value, a comma and a line feed.
FieldChars(key, value) == 6 + (key + 2) + 2 + value + 2

RECURSIVE TagsChars(_)
\* The lines of the tags, each eight blanks, the tag in quotes, a comma and a
\* line feed.
TagsChars(tags) ==
    IF tags = {} THEN 0
    ELSE LET tag == CHOOSE x \in tags : TRUE
         IN  8 + (StringChars(tag) + 2) + 2 + TagsChars(tags \ {tag})

\* The text of the record addTrade builds, from its opening brace to its
\* closing brace.  A field the record lacks is not written and a pnl that
\* is null is; the last field has no comma, nor has the last tag.  An id is
\* trade- and the thirteen digits of a clock reading, a timestamp the 24
\* characters of toISOString.
TradeChars(t) ==
    LET Number(key, x) == IF x = Absent THEN 0 ELSE FieldChars(key, NumberChars(x[1]))
    IN  6 + FieldChars(2, 21) + FieldChars(9, 26)
          + FieldChars(6, StringChars(t.symbol) + 2)
          + FieldChars(4, StringChars(t.side) + 2)
          + Number(10, t.entryPrice) + Number(9, t.exitPrice)
          + Number(4, t.size) + Number(4, t.fees)
          + FieldChars(6, StringChars(t.status) + 2)
          + (IF t.tags = {} THEN 0
             ELSE FieldChars(4, 2 + (TagsChars(t.tags) - 1) + 7))
          + (IF t.notes = Absent THEN 0
             ELSE FieldChars(5, StringChars(t.notes[1]) + 2))
          + (IF t.pnl = Null THEN FieldChars(3, 4)
             ELSE FieldChars(3, NumberChars(t.pnl[1])))
          - 1 + 5

\* The length of the text of the journal in memory once newTrade is pushed:
\* `file` is what was loaded and `text` the length of the text it was parsed
\* from.  The journal of the catch branch, with no trade, takes 106
\* characters; its first trade adds two line feeds and two blanks to the
\* brackets, a further trade a comma and a line feed.
Stringify(file, text, newTrade) ==
    IF LoadJournal(file) = <<>> THEN 106 + 4 + TradeChars(newTrade)
    ELSE text + 2 + TradeChars(newTrade)

(***************************************************************************)
(* Inputs.                                                                 *)
(***************************************************************************)
TradeInput(symbol, side, entryPrice, exitPrice, size, fees, status, tags) ==
    [id |-> Absent, timestamp |-> Absent, pnl |-> Absent,
     symbol |-> symbol, side |-> side, entryPrice |-> entryPrice,
     exitPrice |-> exitPrice, size |-> size, fees |-> fees,
     status |-> status, tags |-> tags, notes |-> Absent]

\* exampleTrade, the record of the `add` command: entry 235.50, exit 240.00,
\* fees 2.35.
ExampleTrade ==
    [TradeInput("SOL-PERP", "long", Num(Div(471, 2)), Num(Q(240)), Num(Q(10)),
                Num(Div(235, 100)), "closed", {"breakout", "momentum"})
        EXCEPT !.notes = <<"Entered on breakout above resistance">>]

\* Inputs of the ledger: closed trades with every combination of an absent,
\* zero or positive entry and exit price (addTrade does not read the status);
\* an open trade with both prices; a short trade; a record that already
\* carries id, timestamp and pnl; and a closed trade whose exit price is
\* Infinity.
LedgerInputs ==
    {TradeInput("SOL-PERP", "long", e, x, Num(Q(2)), Absent, "closed", {}) :
        e \in {Absent, Num(Q(0)), Num(Q(2))}, x \in {Absent, Num(Q(0)), Num(Q(3))}}
    \cup {ExampleTrade,
          TradeInput("SOL-PERP", "long", Num(Q(2)), Num(Q(3)), Num(Q(2)), Absent,
                     "open", {}),
          TradeInput("SOL-PERP", "short", Num(Q(2)), Num(Q(3)), Num(Q(2)), Absent,
                     "closed", {}),
          [ExampleTrade EXCEPT !.id = Num(0), !.timestamp = Num(0),
                               !.pnl = Num(Q(7))],
          TradeInput("SOL-PERP", "long", Num(Q(2)), Num(Div(1, 0)), Num(Q(2)),
                     Absent, "closed", {})}

\* Filters of the `filter` command: none, a side, and a symbol that is the
\* empty string.
DisplayFilters ==
    {NoFilters,
     [NoFilters EXCEPT !.side = <<"short">>],
     [NoFilters EXCEPT !.symbol = <<"">>]}

\* Inputs of the replay: pnl +100, -50, +30, an open trade with both prices,
\* a closed trade whose entry price is 0 and a closed trade with pnl 0.
ReplayInputs ==
    {TradeInput("SOL-PERP", "long", Num(Q(1)), Num(Q(3)), Num(Q(50)), Num(Q(2)),
                "closed", {"breakout"}),
     TradeInput("SOL-PERP", "long", Num(Q(2)), Num(Q(1)), Num(Q(50)), Absent, "closed", {}),
     TradeInput("BTC-PERP", "short", Num(Q(3)), Num(Q(2)), Num(Q(30)), Num(Q(1)),
                "closed", {"momentum"}),
     TradeInput("BTC-PERP", "long", Num(Q(2)), Num(Q(3)), Num(Q(30)), Absent, "open",
                {"breakout"}),
     TradeInput("SOL-PERP", "short", Num(Q(0)), Num(Q(3)), Num(Q(50)), Num(Q(1)),
                "closed", {}),
     TradeInput("BTC-PERP", "short", Num(Q(1)), Num(Q(1)), Num(Q(50)), Num(Q(3)),
                "closed", {"momentum"})}

\* Records addTrade stores for the replay inputs at the clock readings 1..MaxTime
\* (Date.now() is wall-clock time: a later call can read an earlier time).
SampleTrades == {NewTrade(i, t, t) : i \in ReplayInputs, t \in 1..MaxTime}

BoundedSeq(S, n) == UNION {[1..k -> S] : k \in 0..n}

\* Stored records for the filters: the replay inputs with a non-zero pnl (two
\* symbols, both sides, three tag sets, open and closed) at the clock readings
\* 1, 2 and 3.
FilterTrades ==
    {NewTrade(i, t, t) : i \in {r \in ReplayInputs : Truthy(Pnl(r))}, t \in {1, 2, 3}}

\* Filters of calculateAnalytics: each of the five supplied or omitted, and
\* a symbol and a side that are the empty string.
FilterSamples ==
    [symbol    : {Absent, <<"SOL-PERP">>},
     startDate : {Absent, Num(2)},
     endDate   : {Absent, Num(2)},
     side      : {Absent, <<"long">>},
     tags      : {{}, {"breakout", "scalp"}}]
    \cup {[NoFilters EXCEPT !.symbol = <<"">>],
          [NoFilters EXCEPT !.side = <<"">>, !.endDate = Num(2)]}

\* Inputs of the two writers: the example trade, a short trade, and a trade
\* whose exit price is Infinity.
ConcInputs ==
    {ExampleTrade,
     TradeInput("BTC-PERP", "short", Num(Q(2)), Num(Q(3)), Num(Q(2)), Absent, "closed", {}),
     TradeInput("SOL-PERP", "long", Num(Q(2)), Num(Div(1, 0)), Num(Q(2)), Absent,
                "closed", {})}

Procs == {"w1", "w2"}

(***************************************************************************)
(* Position tracker (src/src/yield/position-tracker.js).  `positions` is   *)
(* the object of positions.json, a function from the names it holds to     *)
(* the position records (the order of the keys is not modelled); a         *)
(* missing file reads as the empty object.  The balance and the value of   *)
(* a position are numbers that may be null: JSON has no non-finite number  *)
(* and writes NaN as null.                                                 *)
(***************************************************************************)
NoPositions == [n \in {} |-> 0]

\* Names of the properties every object inherits from Object.prototype:
\* obj[key] finds them when obj has no key of that name.
InheritedKeys ==
    {"constructor", "toString", "toLocaleString", "valueOf", "hasOwnProperty",
     "isPrototypeOf", "propertyIsEnumerable", "__proto__", "__defineGetter__",
     "__defineSetter__", "__lookupGetter__", "__lookupSetter__"}

\* obj[key] is truthy, for an object whose own keys are `keys` and whose
\* values are objects.
HasProperty(keys, key) == key \in keys \cup InheritedKeys

NoSim == [pc |-> "idle"]

TrackedTokens == {"SOL", "USDC", "JLP", "mSOL", "jitoSOL", "INF"}

\* Math.pow(10, token.decimals): NaN for a token object that has no
\* decimals (one found among the inherited properties).
Decimals(tokenKey) ==
    IF tokenKey \notin TrackedTokens THEN NaN
    ELSE IF tokenKey \in {"USDC", "JLP"} THEN Q(Pow10(6)) ELSE Q(Pow10(9))

\* loadPositions: the object of the file.
LoadPositions(file) == file

\* savePositions: what JSON.stringify writes of the object.
SavePositions(ps) ==
    [n \in DOMAIN ps |->
        [ps[n] EXCEPT !.balance = Json(@), !.price = Json(@), !.value = Json(@)]]

\* value = amount * price
Value(amount, price) == MulQ(amount, price)

\* The record trackPosition builds; rawBalance and price are what the chain
\* holds for the mint and what getTokenPrice returns (a price too large for
\* a number is read as Infinity).  getTokenBalance returns 0 when the lookup
\* fails, as it does for a token object without a mint.
Position(name, tokenKey, type, apy, notes, rawBalance, price, clock) ==
    LET balance == IF tokenKey \in TrackedTokens THEN rawBalance ELSE 0
        amount  == DivQ(Q(balance), Decimals(tokenKey))
    IN  [name |-> name, token |-> tokenKey, type |-> type, balance |-> Num(amount),
         price |-> Num(price), value |-> Num(Value(amount, price)), apy |-> apy,
         notes |-> notes, lastUpdated |-> clock]

\* positions[name] = position: for the name __proto__ the assignment sets the
\* prototype of the object and adds no key.
Put(ps, name, position) ==
    IF name = "__proto__" THEN ps
    ELSE [n \in (DOMAIN ps) \cup {name} |-> IF n = name THEN position ELSE ps[n]]

DeleteAll(ps, name) == NoPositions

\* delete positions[name]
Delete(ps, name) == [n \in (DOMAIN ps) \ {name} |-> ps[n]]

\* The registry removePosition leaves: the entry deleted and the file saved
\* when positions[name] is truthy, nothing written otherwise.
Removed(ps, name) ==
    IF HasProperty(DOMAIN ps, name) THEN SavePositions(Delete(ps, name)) ELSE ps

\* pos.value * (pos.apy / 100) / 365
DailyYield(pos) ==
    DivQ(MulQ(ToNumber(pos.value), DivQ(Q(pos.apy), Q(100))), Q(365))

\* totalValue += pos.value over Object.entries(positions)
RECURSIVE TotalValue(_, _)
TotalValue(ps, names) ==
    IF names = {} THEN Zero
    ELSE LET n == CHOOSE x \in names : TRUE
         IN  AddQ(ToNumber(ps[n].value), TotalValue(ps, names \ {n}))

\* totalDailyYield += dailyYield over Object.entries(positions)
RECURSIVE TotalDailyYield(_, _)
TotalDailyYield(ps, names) ==
    IF names = {} THEN Zero
    ELSE LET n == CHOOSE x \in names : TRUE
         IN  AddQ(DailyYield(ps[n]), TotalDailyYield(ps, names \ {n}))

\* if (totalValue > 0) blendedApy = (totalDailyYield * 365 / totalValue) * 100
BlendedApy(totalValue, totalDailyYield) ==
    IF Less(Zero, totalValue)
    THEN Num(MulQ(DivQ(MulQ(totalDailyYield, Q(365)), totalValue), Q(100)))
    ELSE Absent

\* What showPortfolio reports: nothing for the empty registry; a TypeError
\* when it comes to a position whose balance or value is null
\* (pos.balance.toFixed, pos.value.toFixed); else the totals.
Portfolio(ps) ==
    IF DOMAIN ps = {} THEN [empty |-> TRUE, error |-> Absent]
    ELSE IF \E n \in DOMAIN ps : ps[n].balance = Null \/ ps[n].value = Null
    THEN [empty |-> FALSE, error |-> <<"TypeError">>]
    ELSE LET totalValue      == TotalValue(ps, DOMAIN ps)
             totalDailyYield == TotalDailyYield(ps, DOMAIN ps)
         IN  [empty |-> FALSE, error |-> Absent, totalValue |-> totalValue,
              totalDailyYield |-> totalDailyYield,
              blendedApy |-> BlendedApy(totalValue, totalDailyYield)]

\* Names of positions: two plain ones, one that is also the name of an
\* inherited property, and __proto__.
Names == {"jlp", "stake", "toString", "__proto__"}

\* Arguments of `track` with the balance and the price the lookups return:
\* values 100, 300 and 50, a failed lookup (balance and price 0), a price
\* that is not finite, a token that is not tracked and one that is the name
\* of an inherited property.
TrackInputs ==
    {[token |-> "USDC", type |-> "lend", apy |-> 10, notes |-> "",
      rawBalance |-> Pow10(6), price |-> Q(100)],
     [token |-> "USDC", type |-> "hold", apy |-> 20, notes |-> "n",
      rawBalance |-> Pow10(6), price |-> Q(300)],
     [token |-> "SOL", type |-> "stake", apy |-> 20, notes |-> "",
      rawBalance |-> 5 * Pow10(8), price |-> Q(100)],
     [token |-> "SOL", type |-> "hold", apy |-> 0, notes |-> "",
      rawBalance |-> 0, price |-> Q(0)],
     [token |-> "USDC", type |-> "hold", apy |-> 10, notes |-> "",
      rawBalance |-> Pow10(6), price |-> Div(1, 0)],
     [token |-> "DOGE", type |-> "hold", apy |-> 10, notes |-> "",
      rawBalance |-> Pow10(6), price |-> Q(100)],
     [token |-> "constructor", type |-> "hold", apy |-> 10, notes |-> "",
      rawBalance |-> Pow10(6), price |-> Q(100)]}

(***************************************************************************)
(* JLP simulator (src/src/yield/jlp-simulator.js).  Numbers are exact:     *)
(* the prices and what is computed from them are numbers a + b * sqrt(365).*)
(* The values of Math.random() are inputs: every draw is a number of       *)
(* [0, 1).  A scenario that is no key of PRICE_SCENARIOS but the name of   *)
(* an inherited property has neither drift nor volatility: both are        *)
(* undefined, NaN in arithmetic.                                           *)
(***************************************************************************)
Scenarios == {"stable", "bullish", "bearish", "volatile"}

\* PRICE_SCENARIOS[scenario].drift
Drift(scenario) ==
    CASE scenario = "stable"   -> Zero
      [] scenario = "bullish"  -> Div(15, 100)
      [] scenario = "bearish"  -> Div(-15, 100)
      [] scenario = "volatile" -> Zero
      [] OTHER                 -> NaN

\* PRICE_SCENARIOS[scenario].volatility
Volatility(scenario) ==
    CASE scenario = "stable"   -> Div(2, 100)
      [] scenario = "bullish"  -> Div(10, 100)
      [] scenario = "bearish"  -> Div(10, 100)
      [] scenario = "volatile" -> Div(15, 100)
      [] OTHER                 -> NaN

\* Math.sqrt(365)
SqrtOf365 == [rat |-> Zero, irr |-> Q(1)]

\* drift / 365
DailyDrift(scenario) == R(DivQ(Drift(scenario), Q(365)))

\* volatility / Math.sqrt(365)
DailyVol(scenario) == DivR(R(Volatility(scenario)), SqrtOf365)

RandomShockDouble(random, dailyVol) ==
    MulR(R(MulQ(SubQ(random, Div(1, 2)), Q(4))), dailyVol)

\* (Math.random() - 0.5) * 2 * dailyVol
RandomShock(random, dailyVol) ==
    MulR(R(MulQ(SubQ(random, Div(1, 2)), Q(2))), dailyVol)

\* price * (1 + dailyDrift + randomShock)
NextPrice(price, dailyDrift, randomShock) ==
    MulR(price, AddR(AddR(R(Q(1)), dailyDrift), randomShock))

LoopCountExclusive(days) == IF days >= 2 THEN days - 1 ELSE 0

\* Number of passes of `for (let i = 1; i <= days; i++)`.
LoopCount(days) == IF days >= 1 THEN days ELSE 0

\* simulatePricePath; draws[i] is the value of Math.random() in pass i.
SimulatePricePath(startPrice, days, scenario, draws) ==
    LET dailyDrift == DailyDrift(scenario)
        dailyVol   == DailyVol(scenario)
        price[i \in 0..LoopCount(days)] ==
            IF i = 0 THEN startPrice
            ELSE NextPrice(price[i - 1], dailyDrift, RandomShock(draws[i], dailyVol))
    IN  [k \in 1..(LoopCount(days) + 1) |-> price[k - 1]]

\* Values of Math.random() for a scenario: the least one, 0, the middle one,
\* 1/2 (no shock), and 3/4 for the scenarios runMonteCarlo does not use.
Draws(scenario) ==
    IF scenario = "stable" THEN {Div(0, 1), Div(1, 2)}
    ELSE {Div(0, 1), Div(1, 2), Div(3, 4)}

\* Start prices, a zero and a negative one among them.
StartPrices == {R(Q(1)), R(Q(2)), R(Q(100)), R(Q(0)), R(Q(-1))}

\* Lengths of the path asked for, in days.
PathDays == {-1, 0, 1, 2}

\* Scenario arguments: the keys of PRICE_SCENARIOS, one that is no key and one
\* that is no key but the name of an inherited property.
ScenarioInputs == Scenarios \cup {"sideways", "constructor"}

PathThrowsOnInvalid(startPrice, days, scenario) ==
    ~HasProperty(Scenarios, scenario) \/ days < 0 \/ LeqR(startPrice, R(Zero))

\* simulatePricePath throws (a TypeError, destructuring undefined) exactly
\* when PRICE_SCENARIOS[scenario] is undefined.
PathThrows(startPrice, days, scenario) == ~HasProperty(Scenarios, scenario)

RECURSIVE PowQ(_, _)
PowQ(x, n) == IF n = 0 THEN Q(1) ELSE MulQ(x, PowQ(x, n - 1))

CompoundFrequency == 365

IsWhole(x) == x.den = 1

\* A power with a positive base other than 1 and a fractional exponent, a
\* positive real that is in general no quotient: kept as the term
\* coef * base ^ exp.
Surd(coef, base, exp) == [coef |-> coef, base |-> base, exp |-> exp]

IsQuotient(v) == "num" \in DOMAIN v

\* Math.pow(x, y) on numbers (signed zeros are not told apart).
MathPow(x, y) ==
    IF IsNaN(y) THEN Div(0, 0)
    ELSE IF y = Zero THEN Q(1)
    ELSE IF IsNaN(x) THEN Div(0, 0)
    ELSE IF IsInfinite(y)
         THEN IF Abs(x.num) = x.den THEN Div(0, 0)
              ELSE IF (Abs(x.num) > x.den) = (y.num > 0) THEN Div(1, 0) ELSE Zero
    ELSE IF IsInfinite(x)
         THEN IF y.num < 0 THEN Zero
              ELSE IF x.num < 0 /\ IsWhole(y) /\ y.num % 2 = 1 THEN Div(-1, 0)
              ELSE Div(1, 0)
    ELSE IF IsWhole(y)
         THEN IF y.num > 0 THEN PowQ(x, y.num) ELSE DivQ(Q(1), PowQ(x, -y.num))
    ELSE IF x.num < 0 THEN Div(0, 0)
    ELSE IF x = Zero THEN (IF y.num > 0 THEN Zero ELSE Div(1, 0))
    ELSE IF x = Q(1) THEN Q(1)
    ELSE Surd(Q(1), x, y)

\* principal * Math.pow(...)
Times(principal, power) ==
    IF IsQuotient(power) THEN MulQ(principal, power)
    ELSE IF principal = Zero THEN Zero
    ELSE Surd(principal, power.base, power.exp)

PeriodsInclusive(days, compoundFrequency) ==
    AddQ(DivQ(Q(days), DivQ(Q(365), Q(compoundFrequency))), Q(1))

\* periods = days / (365 / compoundFrequency)
Periods(days, compoundFrequency) ==
    DivQ(Q(days), DivQ(Q(365), Q(compoundFrequency)))

\* calculateCompoundInterest
CalculateCompoundInterest(principal, apy, days, compoundFrequency) ==
    LET rate    == DivQ(Q(apy), Q(100))
        periods == Periods(days, compoundFrequency)
    IN  Times(Q(principal),
              MathPow(AddQ(Q(1), DivQ(rate, Q(compoundFrequency))), periods))

TrialGrossYield(principal, apy, days, draws) ==
    LET pricePath   == SimulatePricePath(R(Q(1)), days, "stable", draws)
        endPrice    == pricePath[Len(pricePath)]
        yieldValue  == R(CalculateCompoundInterest(principal, apy, days, CompoundFrequency))
        priceReturn == MulR(R(Q(principal)), SubR(endPrice, R(Q(1))))
        totalValue  == AddR(AddR(R(Q(principal)), yieldValue), priceReturn)
    IN  [totalValue |-> totalValue, yieldValue |-> yieldValue,
         priceReturn |-> priceReturn,
         roi |-> MulR(DivR(SubR(totalValue, R(Q(principal))), R(Q(principal))),
                      R(Q(100)))]

\* The record one pass of the Monte Carlo loop pushes.
Trial(principal, apy, days, draws) ==
    LET pricePath   == SimulatePricePath(R(Q(1)), days, "stable", draws)
        endPrice    == pricePath[Len(pricePath)]
        yieldValue  == SubR(R(CalculateCompoundInterest(principal, apy, days,
                                                         CompoundFrequency)),
                            R(Q(principal)))
        priceReturn == MulR(R(Q(principal)), SubR(endPrice, R(Q(1))))
        totalValue  == AddR(AddR(R(Q(principal)), yieldValue), priceReturn)
    IN  [totalValue |-> totalValue, yieldValue |-> yieldValue,
         priceReturn |-> priceReturn,
         roi |-> MulR(DivR(SubR(totalValue, R(Q(principal))), R(Q(principal))),
                      R(Q(100)))]

\* results.sort((a, b) => a.totalValue - b.totalValue): stable, ascending; a
\* record goes before another only when the difference is below 0.
RECURSIVE InsertByTotalValue(_, _)
InsertByTotalValue(sorted, r) ==
    IF sorted = <<>> THEN <<r>>
    ELSE IF ~LessR(r.totalValue, sorted[Len(sorted)].totalValue)
         THEN Append(sorted, r)
         ELSE Append(InsertByTotalValue(SubSeq(sorted, 1, Len(sorted) - 1), r),
                     sorted[Len(sorted)])

RECURSIVE SortLoop(_, _)
SortLoop(results, k) ==
    IF k = 0 THEN <<>> ELSE InsertByTotalValue(SortLoop(results, k - 1), results[k])

Unsorted(results) == results

SortByTotalValue(results) == SortLoop(results, Len(results))

RoundIndex(iterations, percent) == (iterations * percent + 50) \div 100

\* Math.floor(iterations * 0.05), ... Math.floor(iterations * 0.95), for the
\* rank percent / 100.
FloorIndex(iterations, percent) == (iterations * percent) \div 100

\* results[i] for a zero-based i: undefined outside the array.
At(results, i) == IF i >= 0 /\ i < Len(results) THEN Num(results[i + 1]) ELSE Absent

\* The object runMonteCarlo returns.
Percentiles(results, iterations) ==
    LET sorted == SortByTotalValue(results)
    IN  [worst  |-> At(sorted, FloorIndex(iterations, 5)),
         p25    |-> At(sorted, FloorIndex(iterations, 25)),
         median |-> At(sorted, FloorIndex(iterations, 50)),
         p75    |-> At(sorted, FloorIndex(iterations, 75)),
         best   |-> At(sorted, FloorIndex(iterations, 95))]

\* Arguments of runMonteCarlo: principal, apy and days; the last ones give a
\* compound factor of 0 to the power -1, Infinity.
MonteCarloInputs ==
    {[principal |-> 100, apy |-> 365, days |-> 1],
     [principal |-> 9025, apy |-> 0, days |-> 2],
     [principal |-> 1000, apy |-> 0, days |-> 0],
     [principal |-> 100, apy |-> 365, days |-> -1],
     [principal |-> -2, apy |-> -36500, days |-> -1]}

(***************************************************************************)
(* DCA bot (src/src/dca-bot.js, lines 1-162).  `dca` is the state file     *)
(* (absent until the first save); `bot` is the one bot process: off, in    *)
(* run() with its first executeTrade, or on the interval timer, and for    *)
(* every executeTrade that waits for its quote the state it loaded.  The   *)
(* timer does not wait for a callback to end, so two callbacks can wait at *)
(* the same time.  The bot is run with TotalTrades trades in place of the  *)
(* 10 of CONFIG.totalTrades.  The numbers of the state are numbers that    *)
(* may be null: JSON writes a number that is not finite as null.           *)
(***************************************************************************)
TotalTrades == 2

\* CONFIG.amountPerTrade, 0.01 SOL
AmountPerTrade == Div(1, 100)

Slots == {"run", "timer1", "timer2"}

Off == [mode |-> "off", inflight |-> [s \in Slots |-> Absent]]

\* loadState: the state of the file, or a fresh state when there is none.
LoadState(file, clock) ==
    IF file = Absent
    THEN [tradesExecuted |-> 0, totalSpent |-> Num(Zero), totalReceived |-> Num(Zero),
          startTime |-> clock, trades |-> <<>>]
    ELSE file[1]

\* What JSON.stringify writes of a recorded trade.
JsonTrade(t) ==
    [t EXCEPT !.spent = Json(@), !.received = Json(@), !.price = Json(@)]

\* saveState: the file holds what JSON.stringify writes of the state.
SaveState(state) ==
    <<[state EXCEPT !.totalSpent = Json(@), !.totalReceived = Json(@),
                    !.trades = [k \in DOMAIN state.trades |->
                                   JsonTrade(state.trades[k])]]>>

\* What getQuote returns: null on a failure, else the quote: 1 USDC, 2 USDC
\* or none at all.
Quotes ==
    {Null, <<[outAmount |-> Pow10(6)]>>, <<[outAmount |-> 2 * Pow10(6)]>>,
     <<[outAmount |-> 0]>>}

AllDoneNever(state) == FALSE

\* state.tradesExecuted >= CONFIG.totalTrades
AllDone(state) == state.tradesExecuted >= TotalTrades

\* The state executeTrade saves for a quote.
Executed(state, quote, clock) ==
    LET usdcReceived == Div(quote.outAmount, Pow10(6))
        price        == DivQ(AmountPerTrade, usdcReceived)
    IN  [state EXCEPT
           !.tradesExecuted = @ + 1,
           !.totalSpent = Num(AddQ(ToNumber(@), AmountPerTrade)),
           !.totalReceived = Num(AddQ(ToNumber(@), usdcReceived)),
           !.trades = Append(@, [trade |-> state.tradesExecuted + 1,
                                 timestamp |-> clock, spent |-> Num(AmountPerTrade),
                                 received |-> Num(usdcReceived),
                                 price |-> Num(price)])]

(***************************************************************************)
(* Escrow tool (src/src/dca-bot.js, lines 164-418).  `escrows` is the      *)
(* escrow file (an empty list while there is none); `release` holds, for   *)
(* each invocation of releaseEscrow that waits for its transfer, the list  *)
(* it loaded.                                                              *)
(* The clock counts milliseconds; an id is the clock reading it is made    *)
(* from, and a time is written to the file and read back to the            *)
(* millisecond.  Nothing serialises the invocations: while a release       *)
(* waits for its transfer another release can start and an escrow can be   *)
(* created, and the release then saves the list it loaded before.          *)
(***************************************************************************)
MaxEscrows == 2

\* The invocations of releaseEscrow that can be under way at a time.
Releases == {"r1", "r2"}

\* 60 * 1000, the milliseconds of a minute
MinuteMs == 60000

\* Readings of the clock: the start, a millisecond later, a minute later and
\* a millisecond after that.
EscrowClock == {0, 1, MinuteMs, MinuteMs + 1}

\* loadEscrows: the parsed file, [] when it cannot be read.
LoadEscrows(file) == file

SaveEscrows(list) == list

\* parseInt(args[4]): a number of minutes, or NaN when the argument is missing.
UnlockMinutes == {Null, Num(-1), Num(0), Num(1)}

\* The ids asked for: every id the clock can give, and one nobody has.
EscrowIds == EscrowClock \cup {-1}

\* escrows.find(e => e.id === escrowId): the index of the first escrow with
\* the id, 0 when there is none.
Find(list, escrowId) ==
    IF \E k \in DOMAIN list : list[k].id = escrowId
    THEN CHOOSE k \in DOMAIN list :
             /\ list[k].id = escrowId
             /\ \A j \in 1..(k - 1) : list[j].id # escrowId
    ELSE 0

\* now < unlockTime
TooEarly(escrow, clock) == clock < escrow.unlockTime

\* The escrow createEscrow builds from its three readings of the clock: the
\* first for the unlock time, the second for the id, the third for createdAt.
Escrow(first, second, third, unlockMinutes) ==
    [id |-> second, createdAt |-> third,
     unlockTime |-> first + unlockMinutes * MinuteMs,
     status |-> "locked", releasedAt |-> Absent, signature |-> Absent]

\* The list releaseEscrow saves after the transfer.
Released(list, k, clock) ==
    [list EXCEPT ![k] = [@ EXCEPT !.status = "released",
                                  !.releasedAt = <<clock>>,
                                  !.signature = <<"signature">>]]

(***************************************************************************)
(* Operations.                                                             *)
(***************************************************************************)
NoOut == [op |-> "none"]

\* createEscrow: the clock is read three times and may have moved on from one
\* reading to the next; with NaN minutes `new Date(NaN).toISOString()` throws
\* before anything is saved.  From its first reading of the clock on
\* createEscrow does not wait: the escrow is built, the file loaded and saved
\* in one go.
CreateEscrow(unlockMinutes) ==
    /\ Len(escrows) < MaxEscrows
    /\ \E second \in {c \in EscrowClock : c >= now} :
          \E third \in {c \in EscrowClock : c >= second} :
             /\ IF unlockMinutes = Null
                THEN /\ out' = [op |-> "create", result |-> "RangeError"]
                     /\ UNCHANGED escrows
                ELSE /\ escrows' = SaveEscrows(Append(LoadEscrows(escrows),
                                       Escrow(now, second, third, unlockMinutes[1])))
                     /\ out' = [op |-> "create", result |-> "created"]
             /\ now' = third
    /\ UNCHANGED <<journal, pc, local, seen, chars, yieldVars, botVars, release>>

\* releaseEscrow up to the transfer: the three early returns, else the
\* transfer is under way.
BeginRelease(r, escrowId) ==
    /\ release[r] = Absent
    /\ LET list == LoadEscrows(escrows)
           k    == Find(list, escrowId)
       IN  IF k = 0
           THEN /\ out' = [op |-> "release", id |-> escrowId, result |-> "not found"]
                /\ UNCHANGED release
           ELSE IF list[k].status # "locked"
           THEN /\ out' = [op |-> "release", id |-> escrowId, result |-> "not locked"]
                /\ UNCHANGED release
           ELSE IF TooEarly(list[k], now)
           THEN /\ out' = [op |-> "release", id |-> escrowId, result |-> "too early"]
                /\ UNCHANGED release
           ELSE /\ out' = [op |-> "release", id |-> escrowId, result |-> "transfer"]
                /\ release' = [release EXCEPT
                                  ![r] = <<[id |-> escrowId, index |-> k,
                                            escrows |-> list]>>]
    /\ UNCHANGED <<journal, now, pc, local, seen, chars, yieldVars, botVars, escrows>>

\* releaseEscrow from the end of the transfer: a confirmed transfer marks the
\* escrow and saves the list, a failed one is caught and saves nothing.
FinishRelease(r, confirmed) ==
    /\ release[r] # Absent
    /\ IF confirmed
       THEN /\ escrows' = SaveEscrows(Released(release[r][1].escrows,
                                              release[r][1].index, now))
            /\ out' = [op |-> "release", id |-> release[r][1].id,
                       result |-> "released"]
       ELSE /\ out' = [op |-> "release", id |-> release[r][1].id,
                       result |-> "failed"]
            /\ UNCHANGED escrows
    /\ release' = [release EXCEPT ![r] = Absent]
    /\ UNCHANGED <<journal, now, pc, local, seen, chars, yieldVars, botVars>>

\* executeTrade up to `await getQuote()`: in slot "run" the call of run() at
\* the start of the process, in the other slots a callback of the timer.  A
\* callback that returns false ends the process.
BeginTrade(slot) ==
    /\ bot.inflight[slot] = Absent
    /\ bot.mode = (IF slot = "run" THEN "off" ELSE "timer")
    /\ LET state == LoadState(dca, now)
       IN  IF AllDone(state)
           THEN /\ out' = [op |-> "executeTrade", slot |-> slot, continue |-> <<FALSE>>]
                /\ bot' = IF slot = "run" THEN [bot EXCEPT !.mode = "timer"] ELSE Off
           ELSE /\ out' = [op |-> "executeTrade", slot |-> slot, continue |-> Absent]
                /\ bot' = [mode |-> IF slot = "run" THEN "run" ELSE "timer",
                           inflight |-> [bot.inflight EXCEPT ![slot] = <<state>>]]
    /\ UNCHANGED <<journal, now, pc, local, seen, chars, yieldVars, dca, escrowVars>>

\* executeTrade from the return of getQuote to its end.
FinishTrade(slot, quote) ==
    /\ bot.inflight[slot] # Absent
    /\ LET state     == Executed(bot.inflight[slot][1], quote[1], now)
           continue  == state.tradesExecuted < TotalTrades
           going     == [mode |-> "timer",
                         inflight |-> [bot.inflight EXCEPT ![slot] = Absent]]
       IN  IF quote = Null
           THEN /\ out' = [op |-> "executeTrade", slot |-> slot, continue |-> <<TRUE>>]
                /\ bot' = going
                /\ UNCHANGED dca
           ELSE /\ dca' = SaveState(state)
                /\ out' = [op |-> "executeTrade", slot |-> slot,
                           continue |-> <<continue>>]
                /\ bot' = IF ~continue /\ slot # "run" THEN Off ELSE going
    /\ UNCHANGED <<journal, now, pc, local, seen, chars, yieldVars, escrowVars>>

\* The process is stopped (Ctrl+C); a later start reads the state file.
Stop ==
    /\ bot.mode # "off"
    /\ bot' = Off
    /\ UNCHANGED <<journal, now, out, pc, local, seen, chars, yieldVars, dca, escrowVars>>

\* Arguments of calculateCompoundInterest.
ProjectInputs ==
    [principal : {100, 7}, apy : {0, 365, -365}, days : (-1)..MaxDays,
     compoundFrequency : {CompoundFrequency, 12, 1, 0, -365}]

\* One call of calculateCompoundInterest.
Project(in) ==
    /\ sim.pc = "idle"
    /\ out' = [op |-> "project", in |-> in,
               value |-> CalculateCompoundInterest(in.principal, in.apy, in.days,
                                                   in.compoundFrequency)]
    /\ UNCHANGED <<journal, now, pc, local, seen, chars, yieldVars, botVars, escrowVars>>

\* One call of simulatePricePath.
SimulatePath(startPrice, days, scenario, draws) ==
    /\ sim.pc = "idle"
    /\ out' = IF PathThrows(startPrice, days, scenario)
              THEN [op |-> "path", startPrice |-> startPrice, days |-> days,
                    scenario |-> scenario, draws |-> draws, prices |-> <<>>,
                    error |-> <<"TypeError">>]
              ELSE [op |-> "path", startPrice |-> startPrice, days |-> days,
                    scenario |-> scenario, draws |-> draws,
                    prices |-> SimulatePricePath(startPrice, days, scenario, draws),
                    error |-> Absent]
    /\ UNCHANGED <<journal, now, pc, local, seen, chars, yieldVars, botVars, escrowVars>>

\* runMonteCarlo, entered: results = [].
StartMonteCarlo(in, iterations) ==
    /\ sim.pc = "idle"
    /\ sim' = [pc |-> "loop", principal |-> in.principal, apy |-> in.apy,
               days |-> in.days, iterations |-> iterations, results |-> <<>>]
    /\ out' = NoOut
    /\ UNCHANGED <<journal, now, pc, local, seen, chars, positions, botVars, escrowVars>>

\* One pass of the loop of runMonteCarlo.
RunTrial(draws) ==
    /\ sim.pc = "loop"
    /\ Len(sim.results) < sim.iterations
    /\ sim' = [sim EXCEPT !.results =
                  Append(@, Trial(sim.principal, sim.apy, sim.days, draws))]
    /\ UNCHANGED <<journal, now, out, pc, local, seen, chars, positions, botVars, escrowVars>>

\* The loop is over: sort and return the five records.
FinishMonteCarlo ==
    /\ sim.pc = "loop"
    /\ Len(sim.results) >= sim.iterations
    /\ out' = [op |-> "montecarlo", principal |-> sim.principal, apy |-> sim.apy,
               days |-> sim.days, iterations |-> sim.iterations,
               percentiles |-> Percentiles(sim.results, sim.iterations)]
    /\ sim' = NoSim
    /\ UNCHANGED <<journal, now, pc, local, seen, chars, positions, botVars, escrowVars>>

\* trackPosition: `if (!TRACKED_TOKENS[tokenKey]) return`, else the position
\* is built, put into the loaded registry, saved and returned.
TrackPosition(name, in) ==
    /\ IF ~HasProperty(TrackedTokens, in.token)
       THEN /\ out' = [op |-> "track", name |-> name, in |-> in, position |-> Absent]
            /\ UNCHANGED positions
       ELSE LET position == Position(name, in.token, in.type, in.apy, in.notes,
                                     in.rawBalance, in.price, now)
            IN  /\ positions' = SavePositions(Put(LoadPositions(positions), name,
                                                  position))
                /\ out' = [op |-> "track", name |-> name, in |-> in,
                           position |-> <<position>>]
    /\ UNCHANGED <<journal, now, pc, local, seen, chars, sim, botVars, escrowVars>>

RemovePosition(name) ==
    /\ positions' = Removed(LoadPositions(positions), name)
    /\ out' = [op |-> "remove", name |-> name,
               found |-> HasProperty(DOMAIN LoadPositions(positions), name)]
    /\ UNCHANGED <<journal, now, pc, local, seen, chars, sim, botVars, escrowVars>>

ShowPortfolio ==
    /\ out' = [op |-> "portfolio", portfolio |-> Portfolio(LoadPositions(positions))]
    /\ UNCHANGED <<journal, now, pc, local, seen, chars, positions, sim, botVars, escrowVars>>

\* addTrade.  The clock is read for the id and read again for the timestamp:
\* it may have moved on in between.
AddTrade(trade) ==
    /\ Len(journal) < MaxTrades
    /\ \E later \in now..MaxClock :
          LET j        == LoadJournal(journal)
              newTrade == NewTrade(trade, now, later)
          IN  /\ journal' = SaveJournal(journal, Push(j, newTrade))
              /\ chars' = [chars EXCEPT
                              !.file = Stringify(journal, chars.file, newTrade)]
              /\ out' = [op |-> "add", trade |-> newTrade]
              /\ now' = later
    /\ UNCHANGED <<pc, local, seen, yieldVars, botVars, escrowVars>>

\* displayJournal: the analytics object is exported after analytics.trades
\* has been sorted in place, newest first; the journal is not saved.
DisplayJournal(filters) ==
    /\ LET analytics == CalculateAnalytics(LoadJournal(journal), filters)
       IN  out' = [op |-> "display",
                   analytics |-> [analytics EXCEPT
                                    !.trades = SortByTimestampDesc(analytics.trades)],
                   input |-> InputAfterDisplay(LoadJournal(journal), filters)]
    /\ UNCHANGED <<journal, now, pc, local, seen, chars, yieldVars, botVars, escrowVars>>

\* The `stats` command: calculateAnalytics on the journal, no filter.
Stats ==
    /\ out' = [op |-> "stats",
               analytics |-> CalculateAnalytics(LoadJournal(journal), NoFilters),
               input |-> InputAfterAnalytics(LoadJournal(journal), NoFilters)]
    /\ UNCHANGED <<journal, now, pc, local, seen, chars, yieldVars, botVars, escrowVars>>

\* calculateAnalytics(journal.trades, filters), the filters given by the caller.
Analyze(filters) ==
    /\ out' = [op |-> "analyze", filters |-> filters,
               analytics |-> CalculateAnalytics(LoadJournal(journal), filters),
               input |-> InputAfterAnalytics(LoadJournal(journal), filters)]
    /\ UNCHANGED <<journal, now, pc, local, seen, chars, yieldVars, botVars, escrowVars>>

Tick ==
    /\ now < MaxClock
    /\ now' = now + 1
    /\ UNCHANGED <<journal, out, pc, local, seen, chars, yieldVars, botVars, escrowVars>>

\* Time passes for the escrow tool, up to the next reading of the clock.
Pass ==
    /\ \E later \in EscrowClock : later > now /\ now' = later
    /\ UNCHANGED <<journal, out, pc, local, seen, chars, yieldVars, botVars, escrowVars>>

(***************************************************************************)
(* Two invocations of `add` running as separate processes: each reads the  *)
(* file and builds its journal in memory; fs.writeFileSync then opens the  *)
(* file, which empties it, and writes the text from the start of the file. *)
(* Nothing keeps the other process from opening or writing the file in     *)
(* between.                                                                *)
(***************************************************************************)
Begin(p, trade) ==
    /\ pc[p] = "idle"
    /\ \E later \in now..MaxClock :
          LET newTrade == NewTrade(trade, now, later)
          IN  /\ local' = [local EXCEPT ![p] = Push(LoadJournal(journal), newTrade)]
              /\ chars' = [chars EXCEPT
                              !.mem[p] = Stringify(journal, chars.file, newTrade)]
              /\ now' = later
    /\ seen' = [seen EXCEPT ![p] = {q \in Procs : pc[q] = "saved"}]
    /\ pc' = [pc EXCEPT ![p] = "loaded"]
    /\ UNCHANGED <<journal, out, yieldVars, botVars, escrowVars>>

\* The file is opened for writing: what it held is gone.
OpenFile(p) ==
    /\ pc[p] = "loaded"
    /\ journal' = <<>>
    /\ chars' = [chars EXCEPT !.file = 0]
    /\ pc' = [pc EXCEPT ![p] = "open"]
    /\ UNCHANGED <<now, out, local, seen, yieldVars, botVars, escrowVars>>

\* The text is written over the head of what the file holds by now.  A
\* longer text of the other process keeps its tail after the shorter one: the
\* file is no JSON.  addTrade returns its trade either way.
WriteFile(p) ==
    /\ pc[p] = "open"
    /\ journal' = IF chars.mem[p] >= chars.file
                  THEN SaveJournal(journal, local[p]) ELSE <<>>
    /\ chars' = [chars EXCEPT
                    !.file = IF chars.mem[p] >= @ THEN chars.mem[p] ELSE @]
    /\ out' = [op |-> "add", trade |-> local[p][Len(local[p])]]
    /\ pc' = [pc EXCEPT ![p] = "saved"]
    /\ UNCHANGED <<now, local, seen, yieldVars, botVars, escrowVars>>

(***************************************************************************)
(* Specifications.                                                         *)
(***************************************************************************)
InitProcs ==
    /\ pc = [p \in Procs |-> "idle"]
    /\ local = [p \in Procs |-> <<>>]
    /\ seen = [p \in Procs |-> {}]
    /\ chars = [file |-> 0, mem |-> [p \in Procs |-> 0]]
    /\ positions = NoPositions
    /\ sim = NoSim
    /\ dca = Absent
    /\ bot = Off
    /\ escrows = <<>>
    /\ release = [r \in Releases |-> Absent]

Init ==
    /\ journal = <<>>
    /\ now = 0
    /\ out = NoOut
    /\ InitProcs

Next ==
    \/ \E trade \in LedgerInputs : AddTrade(trade)
    \/ \E filters \in DisplayFilters : DisplayJournal(filters)
    \/ Stats
    \/ Tick

Spec == Init /\ [][Next]_vars

\* calculateAnalytics applied to every journal of at most MaxLen sample trades.
InitAnalytics ==
    /\ journal \in BoundedSeq(SampleTrades, MaxLen)
    /\ now = 0
    /\ out = NoOut
    /\ InitProcs

NextAnalytics == Stats

SpecAnalytics == InitAnalytics /\ [][NextAnalytics]_vars

\* calculateAnalytics with filters, on every journal of at most MaxFiltered
\* sample trades.
InitFilters ==
    /\ journal \in BoundedSeq(FilterTrades, MaxFiltered)
    /\ now = 0
    /\ out = NoOut
    /\ InitProcs

NextFilters == \E filters \in FilterSamples : Analyze(filters)

SpecFilters == InitFilters /\ [][NextFilters]_vars

NextPositions ==
    \/ \E name \in Names : \E in \in TrackInputs : TrackPosition(name, in)
    \/ \E name \in Names : RemovePosition(name)
    \/ ShowPortfolio
    \/ Tick

SpecPositions == Init /\ [][NextPositions]_vars

NextPath ==
    \E startPrice \in StartPrices : \E days \in PathDays :
        \E scenario \in ScenarioInputs : \E draws \in [1..days -> Draws(scenario)] :
            SimulatePath(startPrice, days, scenario, draws)

SpecPath == Init /\ [][NextPath]_vars

NextBot ==
    \/ \E slot \in Slots : BeginTrade(slot)
    \/ \E slot \in Slots : \E quote \in Quotes : FinishTrade(slot, quote)
    \/ Stop
    \/ Tick

SpecBot == Init /\ [][NextBot]_vars

NextEscrow ==
    \/ \E unlockMinutes \in UnlockMinutes : CreateEscrow(unlockMinutes)
    \/ \E r \in Releases : \E escrowId \in EscrowIds : BeginRelease(r, escrowId)
    \/ \E r \in Releases : \E confirmed \in BOOLEAN : FinishRelease(r, confirmed)
    \/ Pass

SpecEscrow == Init /\ [][NextEscrow]_vars

NextProject == \E in \in ProjectInputs : Project(in)

SpecProject == Init /\ [][NextProject]_vars

NextMonteCarlo ==
    \/ \E in \in MonteCarloInputs : \E iterations \in 0..MaxTrials :
          StartMonteCarlo(in, iterations)
    \/ /\ sim.pc = "loop"
       /\ \E draws \in [1..sim.days -> Draws("stable")] : RunTrial(draws)
    \/ FinishMonteCarlo

SpecMonteCarlo == Init /\ [][NextMonteCarlo]_vars

\* The three functions of the simulator, called one after the other.
NextKernel == NextProject \/ NextPath \/ NextMonteCarlo

SpecKernel == Init /\ [][NextKernel]_vars

NextConc ==
    \/ \E p \in Procs : \E trade \in ConcInputs : Begin(p, trade)
    \/ \E p \in Procs : OpenFile(p)
    \/ \E p \in Procs : WriteFile(p)
    \/ Tick

SpecConc == Init /\ [][NextConc]_vars


(***************************************************************************)
(* Properties.                                                             *)
(***************************************************************************)
Indices(s) == 1..Len(s)

MaxOf(S) == CHOOSE m \in S : \A x \in S : Leq(x, m)

\* The trades calculateAnalytics is to replay: closed, with a pnl.
ClosedWithPnl(trades) ==
    SelectSeq(trades, LAMBDA t : t.status = "closed" /\ t.pnl # Null)

HasStats == out.op = "stats"

\* C1: all trade ids of the ledger are pairwise distinct, also when two calls
\* of addTrade read the same clock value.
C1_IdsDistinct ==
    \A i, j \in Indices(journal) : i # j => journal[i].id # journal[j].id

\* C2: a stored trade has a pnl if and only if its status is closed.
C2_PnlIffClosed ==
    \A i \in Indices(journal) :
        (journal[i].pnl # Null) <=> (journal[i].status = "closed")

\* C3: a stored closed trade (both prices given) has
\* pnl = (exitPrice - entryPrice) * size if long, (entryPrice - exitPrice) * size
\* if short.
C3_ClosedPnl ==
    \A i \in Indices(journal) :
        LET t == journal[i]
        IN  (/\ t.status = "closed"
             /\ t.entryPrice # Absent /\ t.exitPrice # Absent /\ t.size # Absent)
            => t.pnl = Num(IF t.side = "long"
                           THEN MulQ(SubQ(Val(t.exitPrice), Val(t.entryPrice)),
                                     Val(t.size))
                           ELSE MulQ(SubQ(Val(t.entryPrice), Val(t.exitPrice)),
                                     Val(t.size)))

\* C4: the ledger is append-only: a step either leaves the persisted ledger as
\* it is, or it is an addTrade that makes it one trade longer, the new trade
\* (the returned record as the file holds it) last and every earlier trade in
\* place and unchanged; an addTrade never leaves the ledger as it is.
C4_AppendOnly ==
    [][/\ \/ journal' = journal
          \/ /\ Len(journal') = Len(journal) + 1
             /\ SubSeq(journal', 1, Len(journal)) = journal
             /\ out'.op = "add"
             /\ <<journal'[Len(journal')]>> = SaveJournal(journal, <<out'.trade>>)
       /\ (\E trade \in LedgerInputs : AddTrade(trade)) => journal' # journal]_vars

C4_Witness ==
    /\ Len(journal) = 2
    /\ journal[1] # journal[2]
    /\ out.op = "display"

\* C5: two writers.  When both read the file before either wrote it, the file
\* written last holds exactly one of the two new trades; when one read the file
\* after the other wrote it, the file holds both, in that order.
C5_LostUpdate ==
    \A p, q \in Procs :
        (p # q /\ pc[p] = "saved" /\ pc[q] = "saved") =>
            /\ (p \notin seen[q] /\ q \notin seen[p]) =>
                   /\ Len(journal) = 1
                   /\ journal \in {SaveJournal(journal, local[p]),
                                   SaveJournal(journal, local[q])}
            /\ (p \in seen[q]) =>
                   /\ Len(local[q]) = 2
                   /\ journal = SaveJournal(journal, <<local[p][1], local[q][2]>>)

\* C6: on a journal with no closed trade (the empty journal included)
\* calculateAnalytics gives winRate, totalPnL, maxDrawdown and
\* maxDrawdownPercent 0 and an empty equity curve.
C6_EmptyNeutral ==
    (HasStats /\ \A i \in Indices(journal) : journal[i].status # "closed") =>
        /\ out.analytics.summary.winRate = Zero
        /\ out.analytics.summary.totalPnL = Zero
        /\ out.analytics.summary.maxDrawdown = Zero
        /\ out.analytics.summary.maxDrawdownPercent = Zero
        /\ out.analytics.equityCurve = <<>>

C6_Witness == HasStats /\ journal = <<>>

\* C7: the equity curve has one point per closed trade, in ascending timestamp
\* order whatever the order of the journal; the steps of the curve are the pnl
\* of the closed trades (each trade once, at its timestamp), so the k-th equity
\* is the sum of the first k pnl in that order and the last one is totalPnL.
C7_EquityReplay ==
    HasStats =>
        LET closed == ClosedWithPnl(journal)
            curve  == out.analytics.equityCurve
            step(k) == SubQ(curve[k].equity,
                            IF k = 1 THEN Zero ELSE curve[k - 1].equity)
        IN  /\ Len(curve) = Len(closed)
            /\ \A k \in 1..(Len(curve) - 1) : curve[k].date <= curve[k + 1].date
            /\ \A i \in Indices(closed) :
                 Cardinality({k \in Indices(curve) :
                                 /\ curve[k].date = closed[i].timestamp
                                 /\ step(k) = Val(closed[i].pnl)})
                 = Cardinality({j \in Indices(closed) :
                                 /\ closed[j].timestamp = closed[i].timestamp
                                 /\ closed[j].pnl = closed[i].pnl})
            /\ out.analytics.summary.totalPnL
                 = (IF curve = <<>> THEN Zero ELSE curve[Len(curve)].equity)

C7_Witness ==
    /\ HasStats
    /\ Len(journal) = 3
    /\ journal[1].timestamp > journal[2].timestamp
    /\ Len(out.analytics.equityCurve) = 3
    /\ out.analytics.equityCurve[1].equity = Q(100)
    /\ out.analytics.equityCurve[2].equity = Q(50)
    /\ out.analytics.equityCurve[3].equity = Q(80)

\* C8 as stated: after each step of the replay the running peak is the largest
\* equity of the steps so far.
C8_PeakIsMaxEquity ==
    HasStats =>
        LET sorted == ClosedSorted(journal)
        IN  \A k \in Indices(sorted) :
               Replay(sorted, k).peakEquity
                 = MaxOf({Replay(sorted, j).equity : j \in 1..k})

\* C8 amended: after each step of the replay the running peak is the largest
\* of the starting equity 0 and the equity of the steps so far.
C8_PeakIsMaxEquityOrZero ==
    HasStats =>
        LET sorted == ClosedSorted(journal)
        IN  /\ \A k \in 0..Len(sorted) :
                  Replay(sorted, k).peakEquity
                    = MaxOf({Zero} \cup {Replay(sorted, j).equity : j \in 1..k})
            /\ out.analytics.summary.peakEquity
                 = Replay(sorted, Len(sorted)).peakEquity

C8_Witness ==
    /\ HasStats
    /\ Len(out.analytics.equityCurve) >= 2
    /\ Less(out.analytics.equityCurve[1].equity, Zero)
    /\ Less(Zero, out.analytics.summary.peakEquity)

\* C9: every point of the curve has drawdown = peak - equity >= 0 and
\* drawdownPercent = drawdown / peak * 100 (0 when peak = 0), peak being the
\* running peak; maxDrawdown and maxDrawdownPercent are the largest drawdown
\* and drawdownPercent of the curve.
C9_Drawdown ==
    HasStats =>
        LET curve   == out.analytics.equityCurve
            peak(k) == MaxOf({Zero} \cup {curve[j].equity : j \in 1..k})
            a       == out.analytics.summary
        IN  /\ \A k \in Indices(curve) :
                 /\ curve[k].drawdown = SubQ(peak(k), curve[k].equity)
                 /\ Leq(Zero, curve[k].drawdown)
                 /\ curve[k].drawdownPercent
                      = (IF peak(k) = Zero THEN Zero
                         ELSE MulQ(DivQ(curve[k].drawdown, peak(k)), Q(100)))
            /\ curve # <<>> =>
                 /\ a.maxDrawdown = MaxOf({curve[k].drawdown : k \in Indices(curve)})
                 /\ \E k \in Indices(curve) : a.maxDrawdownPercent = curve[k].drawdownPercent
                 /\ \A k \in Indices(curve) : Leq(curve[k].drawdownPercent, a.maxDrawdownPercent)

C9_Witness ==
    /\ HasStats
    /\ Len(out.analytics.equityCurve) = 3
    /\ out.analytics.equityCurve[3].drawdown = Q(20)
    /\ out.analytics.summary.maxDrawdown = Q(50)
    /\ out.analytics.summary.maxDrawdownPercent = Div(50, 1)

\* C10: profitFactor is (sum of the positive pnl) / |sum of the negative pnl|
\* over the closed trades, and 0 (a finite number) when no trade loses.
C10_ProfitFactor ==
    HasStats =>
        LET closed == ClosedWithPnl(journal)
            wins   == SelectSeq(closed, LAMBDA t : Less(Zero, Val(t.pnl)))
            losses == SelectSeq(closed, LAMBDA t : Less(Val(t.pnl), Zero))
            pf     == out.analytics.summary.profitFactor
        IN  /\ pf.den # 0
            /\ losses = <<>> => pf = Zero
            /\ losses # <<>> => pf = DivQ(SumPnl(wins), NegQ(SumPnl(losses)))

C10_Witness ==
    /\ HasStats
    /\ out.analytics.summary.winRate # Zero
    /\ \A i \in Indices(journal) : journal[i].pnl = Null \/ Less(Zero, Val(journal[i].pnl))
    /\ out.analytics.summary.profitFactor = Zero


\* Sum of the pnl of the trades of s.
PnlTotal(s) ==
    LET f[k \in 0..Len(s)] == IF k = 0 THEN Zero ELSE AddQ(f[k - 1], Val(s[k].pnl))
    IN  f[Len(s)]

\* Sum of the fees of the trades of s, a missing fee counting 0.
FeeTotal(s) ==
    LET f[k \in 0..Len(s)] ==
            IF k = 0 THEN Zero
            ELSE AddQ(f[k - 1], IF s[k].fees = Absent THEN Zero ELSE Val(s[k].fees))
    IN  f[Len(s)]

\* C11: winRate = 100 * (closed trades with pnl > 0) / (closed trades), 0 when
\* no trade is closed, within [0, 100]; a closed trade with pnl 0 is in the
\* denominator only; avgWin and avgLoss are the mean pnl of the winners and of
\* the losers, 0 when there is none.
C11_WinRate ==
    HasStats =>
        LET closed == ClosedWithPnl(journal)
            wins   == SelectSeq(closed, LAMBDA t : Less(Zero, Val(t.pnl)))
            losses == SelectSeq(closed, LAMBDA t : Less(Val(t.pnl), Zero))
            a      == out.analytics.summary
        IN  /\ a.winRate = (IF closed = <<>> THEN Zero
                            ELSE Div(100 * Len(wins), Len(closed)))
            /\ Leq(Zero, a.winRate) /\ Leq(a.winRate, Div(100, 1))
            /\ a.avgWin = (IF wins = <<>> THEN Zero
                           ELSE DivQ(PnlTotal(wins), Q(Len(wins))))
            /\ a.avgLoss = (IF losses = <<>> THEN Zero
                            ELSE DivQ(PnlTotal(losses), Q(Len(losses))))

C11_Witness ==
    /\ HasStats
    /\ Len(journal) = 2
    /\ journal[1].pnl = Num(Q(0)) /\ journal[1].status = "closed"
    /\ journal[2].pnl = Num(Q(100)) /\ journal[2].status = "closed"
    /\ out.analytics.summary.winRate = Div(50, 1)
    /\ out.analytics.summary.avgLoss = Zero

\* C13: the bias counts partition the closed trades by side: longCount +
\* shortCount is the number of closed trades, longPercent + shortPercent = 100
\* (the sum of the two doubles is the double 100) when that number is
\* positive (both 0 otherwise), longPnL + shortPnL = totalPnL.
C13_Bias ==
    HasStats =>
        LET closed == ClosedWithPnl(journal)
            b      == out.analytics.bias
        IN  /\ b.longCount = Cardinality({i \in Indices(closed) : closed[i].side = "long"})
            /\ b.shortCount = Cardinality({i \in Indices(closed) : closed[i].side = "short"})
            /\ b.longCount + b.shortCount = Len(closed)
            /\ Len(closed) = out.analytics.summary.closedTrades
            /\ closed # <<>> => AddD(b.longPercent, b.shortPercent) = Hundred
            /\ closed = <<>> => (b.longPercent = ZeroD /\ b.shortPercent = ZeroD)
            /\ AddQ(b.longPnL, b.shortPnL) = out.analytics.summary.totalPnL

\* C14: totalFees is the sum of the fees of the closed trades, a missing fee
\* counting 0; avgFeePerTrade = totalFees / (closed trades), 0 when none;
\* feePercentOfPnL = totalFees / |final equity| * 100, 0 when the final equity
\* is 0, and always a finite number.
C14_Fees ==
    HasStats =>
        LET closed == ClosedWithPnl(journal)
            f      == out.analytics.fees
            equity == PnlTotal(closed)
        IN  /\ f.totalFees = FeeTotal(closed)
            /\ f.avgFeePerTrade = (IF closed = <<>> THEN Zero
                                   ELSE DivQ(f.totalFees, Q(Len(closed))))
            /\ f.feePercentOfPnL = (IF equity = Zero THEN Zero
                                    ELSE DivQ(MulQ(Q(100), f.totalFees), AbsQ(equity)))
            /\ f.feePercentOfPnL.den # 0 /\ f.avgFeePerTrade.den # 0

C14_Witness ==
    /\ HasStats
    /\ out.analytics.summary.currentEquity = Zero
    /\ Less(Zero, out.analytics.fees.totalFees)
    /\ out.analytics.fees.feePercentOfPnL = Zero
    /\ \E i \in Indices(journal) : journal[i].fees = Absent /\ journal[i].status = "closed"


\* A trade passes the filters when it passes each one that is supplied.
Matches(t, filters) ==
    /\ filters.symbol # Absent => t.symbol = Val(filters.symbol)
    /\ filters.side # Absent => t.side = Val(filters.side)
    /\ filters.tags # {} => \E tag \in filters.tags : tag \in t.tags
    /\ filters.startDate # Absent => t.timestamp >= Val(filters.startDate)
    /\ filters.endDate # Absent => t.timestamp <= Val(filters.endDate)

\* C12: with filters calculateAnalytics considers exactly the trades that pass
\* every supplied filter (symbol and side equal, a tag shared, timestamp in
\* [start, end], bounds included), whatever the order of the tests; without
\* filters it considers every trade.
C12_Filters ==
    out.op = "analyze" =>
        LET selected == SelectSeq(journal, LAMBDA t : Matches(t, out.filters))
        IN  /\ out.analytics.trades = selected
            /\ out.analytics.summary.totalTrades = Len(selected)
            /\ out.analytics.summary.closedTrades = Len(ClosedWithPnl(selected))
            /\ out.analytics.summary.totalPnL = PnlTotal(ClosedWithPnl(selected))
            /\ out.filters = NoFilters => out.analytics.trades = journal

\* Sum of value * apy over the positions of ps.
RECURSIVE WeightedApySum(_, _)
WeightedApySum(ps, names) ==
    IF names = {} THEN Zero
    ELSE LET n == CHOOSE x \in names : TRUE
         IN  AddQ(MulQ(ToNumber(ps[n].value), Q(ps[n].apy)), WeightedApySum(ps, names \ {n}))

OthersUnchanged(name) ==
    \A n \in (DOMAIN positions) \ {name} :
        n \in DOMAIN positions' /\ positions'[n] = positions[n]

\* What an upsert of `in` under `name` leaves in the registry, for a tracked
\* token.
Stored(name, in) ==
    /\ DOMAIN positions' = (DOMAIN positions) \cup {name}
    /\ positions'[name].name = name
    /\ positions'[name].token = in.token
    /\ positions'[name].type = in.type
    /\ positions'[name].apy = in.apy
    /\ positions'[name].price = Num(in.price)
    /\ positions'[name].lastUpdated = now
    /\ positions'[name].balance # Null
    /\ MulQ(positions'[name].balance[1], Decimals(in.token)) = Q(in.rawBalance)
    /\ positions'[name].value = Num(MulQ(positions'[name].balance[1], in.price))
    /\ OthersUnchanged(name)

\* C15: an upsert stores the position under its name with value = balance *
\* price, replacing the position of that name and leaving the positions of
\* other names unchanged, and every entry of the registry is the one position
\* of its name.  The statement is read for the tokens the tracker knows; an
\* upsert with any other token is to store nothing.
C15_UpsertStores ==
    /\ [](\A n \in DOMAIN positions : positions[n].name = n)
    /\ [][\A name \in Names : \A in \in TrackInputs :
             TrackPosition(name, in) =>
                 IF in.token \in TrackedTokens
                 THEN Stored(name, in)
                 ELSE positions' = positions /\ out'.position = Absent]_vars

\* C16: removePosition deletes the named position and leaves every other
\* position unchanged; for a name that is absent it leaves the registry
\* unchanged, and removing the name a second time gives the same registry.
C16_Remove ==
    [][\A name \in Names :
          RemovePosition(name) =>
              /\ DOMAIN positions' = (DOMAIN positions) \ {name}
              /\ OthersUnchanged(name)
              /\ (name \notin DOMAIN positions => positions' = positions)
              /\ Removed(positions', name) = positions'
              /\ name \notin InheritedKeys =>
                     out'.found = (name \in DOMAIN positions)]_vars

C16_Witness ==
    /\ out.op = "remove"
    /\ out.found
    /\ out.name \notin InheritedKeys
    /\ out.name \notin DOMAIN positions
    /\ DOMAIN positions # {}

\* What the portfolio report holds for a registry with entries: the totals,
\* and the blended APY, the value-weighted mean of the apys, exactly when
\* the total value is above 0.
Totals(report, ps) ==
    /\ report.totalValue = TotalValue(ps, DOMAIN ps)
    /\ MulQ(report.totalDailyYield, Q(36500)) = WeightedApySum(ps, DOMAIN ps)
    /\ (report.blendedApy # Absent) = (Leq(Zero, report.totalValue) /\ report.totalValue # Zero)
    /\ report.blendedApy # Absent =>
           MulQ(report.blendedApy[1], report.totalValue) = WeightedApySum(ps, DOMAIN ps)

\* C17: for a registry with entries the report gives the totals and, exactly
\* when totalValue > 0, the blended APY; for the empty registry it gives no
\* blended APY; no error is raised.
C17_Portfolio ==
    [][ShowPortfolio =>
          /\ out'.portfolio.error = Absent
          /\ IF DOMAIN positions = {}
             THEN out'.portfolio.empty
             ELSE /\ ~out'.portfolio.empty
                  /\ Totals(out'.portfolio, positions)]_vars

\* C18: for at least five trials and every outcome of the draws, the five
\* records of the summary are there and their total values do not decrease
\* from worst through p25, median and p75 to best.
C18_PercentilesOrdered ==
    (out.op = "montecarlo" /\ out.iterations >= 5) =>
        LET s == out.percentiles
        IN  /\ \A f \in {"worst", "p25", "median", "p75", "best"} : s[f] # Absent
            /\ LeqR(s.worst[1].totalValue, s.p25[1].totalValue)
            /\ LeqR(s.p25[1].totalValue, s.median[1].totalValue)
            /\ LeqR(s.median[1].totalValue, s.p75[1].totalValue)
            /\ LeqR(s.p75[1].totalValue, s.best[1].totalValue)

C18_Witness ==
    /\ out.op = "montecarlo"
    /\ out.iterations >= 5
    /\ LessR(out.percentiles.worst[1].totalValue, out.percentiles.median[1].totalValue)
    /\ LessR(out.percentiles.median[1].totalValue, out.percentiles.best[1].totalValue)

\* i is the whole part of n * percent / 100.
IsFloor(i, n, percent) == i * 100 <= n * percent /\ n * percent < (i + 1) * 100

\* rec is one of the trials, and it stands at the zero-based place i when the
\* trials are put in ascending order of total value.
RankedAt(rec, results, i) ==
    /\ \E k \in DOMAIN results : results[k] = rec
    /\ DOMAIN rec = {"totalValue", "yieldValue", "priceReturn", "roi"}
    /\ Cardinality({k \in DOMAIN results :
                       LessR(results[k].totalValue, rec.totalValue)}) <= i
    /\ Cardinality({k \in DOMAIN results :
                       LeqR(results[k].totalValue, rec.totalValue)}) >= i + 1

\* C19: for at least one trial, each of the five records returned is the
\* complete record of a trial, the one at index floor(trialCount * rank) of
\* the trials in ascending order of total value, and that index lies within
\* 0..trialCount - 1.
C19_NearestRank ==
    [][(FinishMonteCarlo /\ sim.iterations >= 1) =>
          \A pair \in {<<"worst", 5>>, <<"p25", 25>>, <<"median", 50>>,
                        <<"p75", 75>>, <<"best", 95>>} :
              \E i \in 0..(sim.iterations - 1) :
                  /\ IsFloor(i, sim.iterations, pair[2])
                  /\ out'.percentiles[pair[1]] # Absent
                  /\ RankedAt(out'.percentiles[pair[1]][1], sim.results, i)]_vars

C19_Witness ==
    /\ out.op = "montecarlo"
    /\ out.iterations = 3
    /\ out.percentiles.p25 = out.percentiles.worst
    /\ out.percentiles.p75 = out.percentiles.best
    /\ LessR(out.percentiles.worst[1].totalValue, out.percentiles.median[1].totalValue)
    /\ LessR(out.percentiles.median[1].totalValue, out.percentiles.best[1].totalValue)
    /\ out.percentiles.median[1].roi # R(Zero)

\* C20: the price path has exactly days + 1 prices, the first of them the
\* start price; for days = 0 it is the start price alone.
C20_PathLength ==
    (out.op = "path" /\ out.days >= 0 /\ out.scenario \in Scenarios) =>
        /\ Len(out.prices) = out.days + 1
        /\ out.prices[1] = out.startPrice
        /\ (out.days = 0 => out.prices = <<out.startPrice>>)

C20_Witness ==
    /\ out.op = "path"
    /\ out.scenario \in Scenarios
    /\ out.days = 2
    /\ Len(out.prices) = 3
    /\ LessR(out.prices[3], out.prices[2])
    /\ LessR(out.prices[2], out.prices[1])

\* C21: at apy 0 the projection of P over any days >= 0 is P, and over 0 days
\* it is P at every apy, negative ones included, for the default and every
\* positive compounding frequency.
C21_ProjectIdentities ==
    (out.op = "project" /\ out.in.compoundFrequency > 0) =>
        /\ (out.in.apy = 0 /\ out.in.days >= 0) => out.value = Q(out.in.principal)
        /\ out.in.days = 0 => out.value = Q(out.in.principal)

C21_Witness ==
    /\ out.op = "project"
    /\ out.in.compoundFrequency = 12
    /\ out.in.apy < 0
    /\ out.in.days = 0
    /\ out.value = Q(out.in.principal)

TrialFields == {"totalValue", "yieldValue", "priceReturn", "roi"}

\* C22: on negative days, a non-positive start price or a non-positive
\* compounding frequency (as on every other input with a scenario of the
\* table) no call throws: the projection is a number, the path is a sequence
\* of numbers that starts with the start price, and the summary of a run
\* with at least one trial holds five trial records.
C22_NoThrow ==
    /\ out.op = "project" =>
           (IsQuotient(out.value) \/ DOMAIN out.value = {"coef", "base", "exp"})
    /\ (out.op = "path" /\ out.scenario \in Scenarios) =>
           /\ out.error = Absent
           /\ Len(out.prices) >= 1
           /\ out.prices[1] = out.startPrice
           /\ \A k \in DOMAIN out.prices : DOMAIN out.prices[k] = {"rat", "irr"}
    /\ (out.op = "montecarlo" /\ out.iterations >= 1) =>
           \A f \in {"worst", "p25", "median", "p75", "best"} :
               /\ out.percentiles[f] # Absent
               /\ DOMAIN out.percentiles[f][1] = TrialFields

C22_Witness ==
    /\ out.op = "path"
    /\ out.days < 0
    /\ LeqR(out.startPrice, R(Zero))
    /\ out.error = Absent
    /\ out.prices = <<out.startPrice>>

\* A trade that is closed and has a pnl.
Contributes(t) == t.status = "closed" /\ t.pnl # Null

\* The analytics without totalTrades, openTrades and the trade list.
Core(a) ==
    [summary     |-> [f \in (DOMAIN a.summary) \ {"totalTrades", "openTrades"} |->
                         a.summary[f]],
     bias        |-> a.bias,
     fees        |-> a.fees,
     equityCurve |-> a.equityCurve]

\* C23: open trades and trades without a pnl do not contribute: the
\* analytics of a collection and those of the collection without such trades
\* differ only in totalTrades, openTrades and the returned trade list, and
\* totalTrades and openTrades count every trade and every open trade.
C23_OpenDoNotContribute ==
    out.op = "stats" =>
        LET a == out.analytics
            b == CalculateAnalytics(SelectSeq(a.trades, Contributes), NoFilters)
        IN  /\ Core(a) = Core(b)
            /\ a.summary.totalTrades = Len(a.trades)
            /\ a.summary.openTrades =
                   Cardinality({k \in DOMAIN a.trades : a.trades[k].status = "open"})
            /\ b.summary.totalTrades = a.summary.closedTrades
            /\ b.summary.openTrades = 0

C23_Witness ==
    /\ out.op = "stats"
    /\ out.analytics.summary.closedTrades = 1
    /\ out.analytics.summary.totalPnL # Zero
    /\ \E k \in DOMAIN out.analytics.trades :
           out.analytics.trades[k].status = "open" /\ out.analytics.trades[k].pnl # Null
    /\ \E k \in DOMAIN out.analytics.trades :
           out.analytics.trades[k].status = "closed" /\ out.analytics.trades[k].pnl = Null

\* C24: calculateAnalytics reads its input only: after the call the array
\* passed in holds the same trades in the same order with the same fields,
\* and so does the persisted journal, also when the replay ran over the
\* trades in another (timestamp) order.
C24_ReadOnly ==
    [][Stats => (out'.input = journal /\ journal' = journal)]_vars

C24_Witness ==
    /\ out.op = "stats"
    /\ out.input = journal
    /\ Len(out.analytics.equityCurve) = 2
    /\ out.analytics.equityCurve[1].date < out.analytics.equityCurve[2].date
    /\ Len(journal) = 2
    /\ journal[1].timestamp > journal[2].timestamp

\* What a step does to the entry of name n, given the upserts that store it.
Lifecycle(n, upserts) ==
    /\ (\E in \in upserts : TrackPosition(n, in)) => n \in DOMAIN positions'
    /\ RemovePosition(n) => n \notin DOMAIN positions'
    /\ (n \in DOMAIN positions' /\ n \notin DOMAIN positions) =>
           \E in \in upserts : TrackPosition(n, in)
    /\ (n \in DOMAIN positions /\ n \notin DOMAIN positions') => RemovePosition(n)
    /\ (n \in DOMAIN positions /\ n \in DOMAIN positions'
           /\ positions'[n] # positions[n]) =>
           \E in \in upserts : TrackPosition(n, in)

\* C25: starting from the empty registry, a position is there exactly when
\* the last upsert of its name has not been followed by a remove of that
\* name: every upsert puts it there, every remove takes it away, and no other
\* step adds, alters or drops it.  The upserts are those with a token the
\* tracker knows.
C25_Lifecycle ==
    /\ positions = NoPositions
    /\ [][\A n \in Names :
             Lifecycle(n, {in \in TrackInputs : in.token \in TrackedTokens})]_vars

\* The shock of step k of the path in `out`: its draw, scaled from [0, 1) to
\* [-dailyVol, dailyVol).
ShockOf(k) ==
    MulR(R(SubQ(MulQ(out.draws[k], Q(2)), Q(1))), DailyVol(out.scenario))

\* C26: each price after the first is the one before it times
\* 1 + dailyDrift + shock, with one draw and so one shock per step and
\* -dailyVol <= shock <= dailyVol; and when startPrice > 0 and
\* |dailyDrift| + dailyVol < 1 every price of the path is positive.
C26_PriceSteps ==
    (out.op = "path" /\ out.scenario \in Scenarios) =>
        /\ DOMAIN out.draws = 1..(Len(out.prices) - 1)
        /\ \A k \in DOMAIN out.draws :
               /\ LeqR(NegR(DailyVol(out.scenario)), ShockOf(k))
               /\ LeqR(ShockOf(k), DailyVol(out.scenario))
               /\ out.prices[k + 1] =
                      MulR(out.prices[k],
                           AddR(AddR(R(Q(1)), DailyDrift(out.scenario)), ShockOf(k)))
        /\ (/\ LessR(R(Zero), out.startPrice)
            /\ LessR(AddR(AbsR(DailyDrift(out.scenario)), DailyVol(out.scenario)), R(Q(1))))
               => \A k \in DOMAIN out.prices : LessR(R(Zero), out.prices[k])

C26_Witness ==
    /\ out.op = "path"
    /\ out.scenario = "bearish"
    /\ out.days = 2
    /\ LessR(R(Zero), out.prices[3])
    /\ LessR(out.prices[3], out.prices[2])
    /\ ShockOf(1) # ShockOf(2)

\* The terminal prices a path of the stable profile from 1 can have.
TerminalPrices(days) ==
    {SimulatePricePath(R(Q(1)), days, "stable", draws)[LoopCount(days) + 1] :
        draws \in [1..days -> Draws("stable")]}

\* The record r is a trial of the run with these arguments.
Decomposes(r, principal, apy, days) ==
    /\ r.totalValue = AddR(AddR(R(Q(principal)), r.yieldValue), r.priceReturn)
    /\ r.yieldValue =
           SubR(R(CalculateCompoundInterest(principal, apy, days, CompoundFrequency)),
                R(Q(principal)))
    /\ \E terminalPrice \in TerminalPrices(days) :
           r.priceReturn = MulR(R(Q(principal)), SubR(terminalPrice, R(Q(1))))

\* C27: every trial record, in the loop and among the five returned, has
\* totalValue = principal + yieldValue + priceReturn with priceReturn =
\* principal * (terminalPrice - 1) and the yieldValue of the run,
\* project(principal, apy, days) - principal.
C27_TrialDecomposition ==
    /\ sim.pc = "loop" =>
           \A k \in DOMAIN sim.results :
               Decomposes(sim.results[k], sim.principal, sim.apy, sim.days)
    /\ out.op = "montecarlo" =>
           \A f \in DOMAIN out.percentiles :
               out.percentiles[f] # Absent =>
                   Decomposes(out.percentiles[f][1], out.principal, out.apy, out.days)

C27_Witness ==
    /\ out.op = "montecarlo"
    /\ out.apy > 0
    /\ out.percentiles.worst # Absent
    /\ out.percentiles.worst[1].yieldValue = R(Q(1))
    /\ out.percentiles.best[1].yieldValue = R(Q(1))
    /\ out.percentiles.worst[1].priceReturn # out.percentiles.best[1].priceReturn

\* C28: the id and the timestamp of the trade addTrade stores are the ones
\* generated in that call (the id from its first reading of the clock, the
\* timestamp from its second), whatever fields the input record carries.
C28_GeneratedIdAndTimestamp ==
    [][\A trade \in LedgerInputs :
          AddTrade(trade) =>
              /\ journal'[Len(journal')].id = now
              /\ journal'[Len(journal')].timestamp = now']_vars

\* C29: tradesExecuted never exceeds totalTrades and equals the number of
\* recorded trades; an executeTrade whose quote fails leaves the state file
\* as it is; and once tradesExecuted = totalTrades the recorded trades no
\* longer change.
C29_BotCounters ==
    /\ [](dca # Absent =>
            /\ dca[1].tradesExecuted <= TotalTrades
            /\ dca[1].tradesExecuted = Len(dca[1].trades)
            /\ \A k \in DOMAIN dca[1].trades : dca[1].trades[k].trade = k)
    /\ [][/\ (\E slot \in Slots : FinishTrade(slot, Null)) => dca' = dca
          /\ (dca # Absent /\ dca[1].tradesExecuted = TotalTrades) => dca' = dca]_vars

C29_Witness ==
    /\ dca # Absent
    /\ dca[1].tradesExecuted = TotalTrades
    /\ bot.mode = "timer"
    /\ out.op = "executeTrade"
    /\ out.continue = <<FALSE>>
    /\ dca[1].trades[1].received # dca[1].trades[2].received

\* The escrow at index k becomes released in this step.
BecomesReleased(k) ==
    /\ escrows[k].status # "released"
    /\ k \in DOMAIN escrows'
    /\ escrows'[k].status = "released"

\* C30: an escrow becomes released only in a releaseEscrow of its id that found
\* it locked, at or after its unlockTime, and whose transfer succeeded; a
\* releaseEscrow that ends any other way (not found, not locked, too early,
\* failed transfer) leaves the escrow file as it is; and a released escrow
\* stays as it was released: not released again, not locked again.
C30_ReleaseOnce ==
    [][/\ \A k \in DOMAIN escrows :
            /\ BecomesReleased(k) =>
                  /\ \E r \in Releases :
                        release[r] # Absent /\ release[r][1].id = escrows[k].id
                  /\ escrows[k].status = "locked"
                  /\ now >= escrows[k].unlockTime
                  /\ out'.op = "release"
                  /\ out'.result = "released"
            /\ escrows[k].status = "released" =>
                  /\ k \in DOMAIN escrows'
                  /\ escrows'[k] = escrows[k]
       /\ (/\ out' # out
           /\ out'.op = "release"
           /\ out'.result \in {"not found", "not locked", "too early", "failed"})
             => escrows' = escrows
       /\ (out' # out /\ out'.op = "release" /\ out'.result = "released")
             => \E k \in DOMAIN escrows : BecomesReleased(k)]_vars

====
